---------------------------- MODULE Spec2Model ----------------------------
(***************************************************************************)
(* Model of closure-pro-build's JS module manager (js-module-manager.js)   *)
(* and of graph-util.js.  calcInputFiles(projectOptions,                   *)
(* transitiveClosureDeps) builds a ModuleManager (initModules,             *)
(* getSortedModuleIds, fillInTransitiveModuleDeps, initFiles,              *)
(* getSortedFileIds) and then runs calcInputs, which places every input    *)
(* file in one module.  Each stage is one action; the placement loop of    *)
(* calcInputs is one action per iteration.                                 *)
(*                                                                         *)
(* Module names are the declaration indices 1..n; indexModules gives the   *)
(* k-th declared module the ID 'A'+k-1, so a module's ID is modelled by    *)
(* the same index, and the virtual base module's ID '@' (the character     *)
(* before 'A') by 0.  File IDs ('a', 'b', ... in indexFiles) are the       *)
(* numbers 1, 2, ...; file paths are strings.  JS objects used as sets     *)
(* (moduleDeps, transitiveModuleDeps, inferredDeps, neededInModules) are   *)
(* sets; where the code walks the keys of an object in for..in order       *)
(* (this.modules, this.files, the graphs of topSortNodes) the key order    *)
(* is kept in an explicit key sequence.  alwaysLoadedAfterModules, an      *)
(* array of names, is the set of its names.                                *)
(*                                                                         *)
(* Spec draws the project stage by stage.  SpecGiven hands calcInputFiles  *)
(* a whole project at the call, SpecCalls calls it several times in a row  *)
(* and keeps each call's outcome, and SpecSort applies topSortNodes to     *)
(* graphs of its own, one of whose nodes may be named by the empty string  *)
(* (EmptyName).                                                            *)
(*                                                                         *)
(* SpecGlob models file-matcher.js: resolveAnyGlobPatternsAsync starts     *)
(* one glob per pattern and inserts the results once all have called       *)
(* back.  SpecWrite models one writeFinalModuleJsFile call of              *)
(* js-builder.js with common.js's writeTextFilesAsync: the stream's open,  *)
(* every fs.readFile callback, every write callback and the end of the     *)
(* stream are steps of their own.  SpecOutput models outputFinalJsAsync,   *)
(* which starts one such task per output file, their steps interleaved     *)
(* as the event loop may interleave them.  Paths of that part are records  *)
(* (directory, name, suffix); a file's content is the sequence of the      *)
(* source contents written to it.                                          *)
(***************************************************************************)
EXTENDS Integers, Sequences, FiniteSets, TLC

VARIABLES
  pc,                    \* position of the calcInputFiles call
  error,                 \* the exception thrown, NoError while none
  jsModules,             \* projectOptions.jsModules: alwaysLoadedAfterModules per module
  inputFiles,            \* per module: dontCompileInputFiles, nonClosureNamespacedInputFiles
                         \* and transitiveClosureDeps[moduleName]
  modules,               \* this.modules: ID -> {name, moduleDeps, transitiveModuleDeps, isRoot}
  moduleKeys,            \* key order of this.modules
  sortedModuleIds,       \* this.sortedModuleIds
  files,                 \* this.files: ID -> {path, compileMode, inferredDeps,
                         \* neededInModules}
  fileKeys,              \* key order of this.files
  sortedFileIds,         \* this.sortedFileIds
  memoizedLcas,          \* this.memoizedLcas: module set -> list of LCA modules
  inputsByModule,        \* calcInputs' inputsByModule
  i,                     \* calcInputs' loop index (1-based)
  lastPlaced,            \* the latest placement step: the file, the module chosen
                         \* for it and this.files as it was before the step
  result,                \* the list calcInputFiles returns
  calls,                 \* the number of calcInputFiles calls made so far
  kept,                  \* the projects and outcomes of the calls that have ended
  tsGraph,               \* a graph given to topSortNodes: its keys and its edges
  tsResult,              \* what topSortNodes made of tsGraph
  filesAndPatterns,      \* the list given to resolveAnyGlobPatternsAsync
  resolvedFiles,         \* resolveGlobsAsync's map from pattern to resolved files
  allFiles,              \* what resolveAnyGlobPatternsAsync's promise yields
  disk,                  \* the files on disk: path -> the chunks of its content
  outputModules,         \* the jsModules given to outputFinalJsAsync
  tasks                  \* outputFinalJsAsync's tasks: the writeFinalModuleJsFile
                         \* calls under way

\* What the caller of calcInputFiles and the caller of topSortNodes hold.
\* What the glob resolver and the output of the final JS files hold.
ioVars == <<filesAndPatterns, resolvedFiles, allFiles, disk, outputModules, tasks>>

callerVars == <<calls, kept, tsGraph, tsResult, ioVars>>

vars == <<pc, error, jsModules, inputFiles, modules, moduleKeys, sortedModuleIds,
          files, fileKeys, sortedFileIds, memoizedLcas, inputsByModule, i,
          lastPlaced, result, callerVars>>

-----------------------------------------------------------------------------
(* Bounds of the model and program constants *)

\* Free projects list at most this many file occurrences in all their lists.
MaxOcc == 3
\* Layered projects start with a chain of 1 or DeepLen modules.
DeepLen == 9
\* Layered projects list at most this many file occurrences.
MaxLayeredOcc == 5

\* Numbers of declared modules of the free projects.
FreeModuleCounts == {0, 1, 2, 3}
\* The file paths of the inputs, in naming order.
PathNames == <<"p.js", "q.js", "r.js", "s.js">>

VIRTUAL_BASE_MODULE_ID == 0
VIRTUAL_BASE_MODULE == 0
UNCOMPILED == 1
NON_NAMESPACED == 2
CLOSURE == 3
\* A module name that no project declares ('DNE' in the tests).
DNE == 99

NoError == [kind |-> "none", names |-> <<>>, paths |-> <<>>]

NoGraph == [keys |-> <<>>, edges |-> <<>>]

NotSorted == [ok |-> FALSE, sortedNodes |-> <<>>, remainingNodes |-> <<>>]
\* resolveAnyGlobPatternsAsync's promise is pending.
NotResolved == [state |-> "pending", value |-> <<>>]

-----------------------------------------------------------------------------
(* Sequence helpers *)

Range(s) == {s[k] : k \in DOMAIN s}

IsDupFree(s) == \A k1, k2 \in DOMAIN s : s[k1] = s[k2] => k1 = k2

IndexOf(s, x) == IF x \in Range(s) THEN CHOOSE k \in DOMAIN s : s[k] = x ELSE 0

Remove(s, x) == SelectSeq(s, LAMBDA y : y # x)

\* Array.prototype.unshift
Unshift(s, x) == <<x>> \o s

-----------------------------------------------------------------------------
(* graph-util.js *)

\* intersectSets and addSetValues are called by js-module-manager.js; their
\* code is not part of the graph-util.js at hand.
intersectSets(a, b) == a \cap b

addSetValues(from, to) == to \cup from

\* A variant of the choice below, against which the cycle property is tried.
chooseFirstNode(keys, remainingGraph) == IF Len(keys) = 0 THEN 0 ELSE 1

\* Index in keys of the first node with no outgoing edges, 0 for null.
chooseNodeWithNoOutgoingEdges(keys, remainingGraph) ==
  LET free == {k \in DOMAIN keys : remainingGraph[keys[k]] = {}}
  IN  IF free = {} THEN 0 ELSE CHOOSE k \in free : \A k2 \in free : k <= k2

\* The node whose name is the empty string (module and file IDs are never
\* empty), and !nextNode: true of null and of the empty string.
EmptyName == 0 - 1

IsFalsy(keys, k) == k = 0 \/ keys[k] = EmptyName

RECURSIVE topSortLoop(_, _, _)
topSortLoop(keys, remainingGraph, sortedNodes) ==
  IF Len(keys) = 0
  THEN [ok |-> TRUE, sortedNodes |-> sortedNodes, remainingNodes |-> <<>>]
  ELSE LET k == chooseNodeWithNoOutgoingEdges(keys, remainingGraph)
       IN  IF IsFalsy(keys, k)
           THEN [ok |-> FALSE, sortedNodes |-> sortedNodes, remainingNodes |-> keys]
           ELSE LET nextNode == keys[k]
                    rest == Remove(keys, nextNode)
                IN  topSortLoop(rest,
                                [n \in Range(rest) |-> remainingGraph[n] \ {nextNode}],
                                Append(sortedNodes, nextNode))

\* keys: the graph's nodes in key order; graph: node -> set of outgoing edges.
topSortNodes(keys, graph) == topSortLoop(keys, graph, <<>>)

-----------------------------------------------------------------------------
(* js-module-manager.js: the module graph *)

Min(S) == CHOOSE x \in S : \A y \in S : x <= y

RECURSIVE SortedSeq(_)
SortedSeq(S) == IF S = {} THEN <<>> ELSE <<Min(S)>> \o SortedSeq(S \ {Min(S)})

\* indexModules: the k-th declared module name gets the k-th ID.
indexModules(specs) == [name \in 1..Len(specs) |-> name]

\* A variant of the injection below, against which the root check is tried:
\* the virtual base module becomes the only root.
virtualBaseAsOnlyRoot(mods, keys) ==
  LET rootModuleIds == {id \in Range(keys) : mods[id].isRoot}
  IN  IF Cardinality(rootModuleIds) = 1
      THEN [modules |-> mods, keys |-> keys]
      ELSE [modules |->
              [id \in Range(keys) \cup {VIRTUAL_BASE_MODULE_ID} |->
                 IF id = VIRTUAL_BASE_MODULE_ID
                 THEN [name |-> VIRTUAL_BASE_MODULE, moduleDeps |-> {},
                       transitiveModuleDeps |-> {}, isRoot |-> TRUE]
                 ELSE IF id \in rootModuleIds
                 THEN [mods[id] EXCEPT !.moduleDeps = @ \cup {VIRTUAL_BASE_MODULE_ID},
                                       !.isRoot = FALSE]
                 ELSE mods[id]],
            keys |-> Append(keys, VIRTUAL_BASE_MODULE_ID)]

maybeAddVirtualBaseModule(mods, keys) ==
  LET rootModuleIds == {id \in Range(keys) : mods[id].isRoot}
  IN  IF Cardinality(rootModuleIds) = 1
      THEN [modules |-> mods, keys |-> keys]
      ELSE [modules |->
              [id \in Range(keys) \cup {VIRTUAL_BASE_MODULE_ID} |->
                 IF id = VIRTUAL_BASE_MODULE_ID
                 THEN [name |-> VIRTUAL_BASE_MODULE, moduleDeps |-> {},
                       transitiveModuleDeps |-> {}, isRoot |-> FALSE]
                 ELSE IF id \in rootModuleIds
                 THEN [mods[id] EXCEPT !.moduleDeps = @ \cup {VIRTUAL_BASE_MODULE_ID}]
                 ELSE mods[id]],
            keys |-> Append(keys, VIRTUAL_BASE_MODULE_ID)]

\* A variant of initModules, against which the unknown-module error is tried:
\* names that no module declares are passed over.
initModulesPassingUnknown(specs) ==
  LET moduleNameToId == indexModules(specs)
      n == Len(specs)
      mods == [m \in 1..n |->
                 [name |-> m,
                  moduleDeps |-> {moduleNameToId[d] :
                                    d \in specs[m] \cap DOMAIN moduleNameToId},
                  transitiveModuleDeps |-> {},
                  isRoot |-> (Cardinality(specs[m]) = 0)]]
      r == maybeAddVirtualBaseModule(mods, [k \in 1..n |-> moduleNameToId[k]])
  IN  [ok |-> TRUE, error |-> NoError, modules |-> r.modules, keys |-> r.keys]

\* specs[m] is alwaysLoadedAfterModules of the m-th declared module.
initModules(specs) ==
  LET moduleNameToId == indexModules(specs)
      n == Len(specs)
      missing == {m \in 1..n : \E d \in specs[m] : d \notin DOMAIN moduleNameToId}
  IN  IF missing # {}
      THEN LET m == Min(missing)
               d == Min({x \in specs[m] : x \notin DOMAIN moduleNameToId})
           IN  [ok |-> FALSE,
                error |-> [kind |-> "UnknownDepModule", names |-> <<d, m>>, paths |-> <<>>],
                modules |-> <<>>, keys |-> <<>>]
      ELSE LET mods == [m \in 1..n |->
                          [name |-> m,
                           moduleDeps |-> {moduleNameToId[d] : d \in specs[m]},
                           transitiveModuleDeps |-> {},
                           isRoot |-> (Cardinality(specs[m]) = 0)]]
               r == maybeAddVirtualBaseModule(mods, [k \in 1..n |-> moduleNameToId[k]])
           IN  [ok |-> TRUE, error |-> NoError, modules |-> r.modules, keys |-> r.keys]

getSortedModuleIds(mods, keys) ==
  LET depGraph == [id \in Range(keys) |-> mods[id].moduleDeps]
      r == topSortNodes(keys, depGraph)
  IN  IF r.ok
      THEN [ok |-> TRUE, error |-> NoError, sorted |-> r.sortedNodes]
      ELSE [ok |-> FALSE,
            error |-> [kind |-> "ModuleCycle",
                       names |-> [k \in DOMAIN r.remainingNodes |->
                                    mods[r.remainingNodes[k]].name],
                       paths |-> <<>>],
            sorted |-> <<>>]

\* A fillInTransitiveModuleDeps loop that stops at the direct dependencies.
fillInDirectOnly(mods, ids) ==
  [id \in DOMAIN mods |->
     [mods[id] EXCEPT !.transitiveModuleDeps = mods[id].moduleDeps \cup {id}]]

RECURSIVE fillInLoop(_, _)
fillInLoop(mods, ids) ==
  IF ids = <<>> THEN mods
  ELSE LET moduleId == Head(ids)
           t == UNION {mods[d].transitiveModuleDeps : d \in mods[moduleId].moduleDeps}
                  \cup {moduleId}
       IN  fillInLoop([mods EXCEPT ![moduleId].transitiveModuleDeps = @ \cup t], Tail(ids))

fillInTransitiveModuleDeps(mods, keys, sorted) ==
  LET filled == fillInLoop(mods, sorted)
      rootsOf(id) == {r \in filled[id].transitiveModuleDeps : filled[r].isRoot}
      bad == {k \in DOMAIN keys : Cardinality(rootsOf(keys[k])) > 1}
  IN  IF bad = {}
      THEN [ok |-> TRUE, error |-> NoError, modules |-> filled]
      ELSE LET id == keys[Min(bad)]
           IN  [ok |-> FALSE,
                error |-> [kind |-> "MultipleRoots",
                           names |-> <<filled[id].name>> \o
                                     SortedSeq({filled[r].name : r \in rootsOf(id)}),
                           paths |-> <<>>],
                modules |-> filled]

-----------------------------------------------------------------------------
(* js-module-manager.js: the files and their inferred dependencies *)

\* The paths in the order in which indexFiles meets them: module by module in
\* declaration order, each module's Closure dependencies, then its
\* nonClosureNamespacedInputFiles, then its dontCompileInputFiles.
RECURSIVE scanOrder(_)
scanOrder(lists) ==
  IF lists = <<>> THEN <<>>
  ELSE Head(lists).closureDeps \o Head(lists).nonClosureNamespacedInputFiles
         \o Head(lists).dontCompileInputFiles \o scanOrder(Tail(lists))

\* maybeAdd over a sequence of paths: a path not seen yet gets the next ID
\* (1 for 'a', 2 for 'b', ...).
RECURSIVE maybeAddAll(_, _)
maybeAddAll(filePathToId, paths) ==
  IF paths = <<>> THEN filePathToId
  ELSE maybeAddAll(IF Head(paths) \in DOMAIN filePathToId THEN filePathToId
                   ELSE (Head(paths) :> Cardinality(DOMAIN filePathToId) + 1)
                          @@ filePathToId,
                   Tail(paths))

indexFiles(lists) == maybeAddAll(<<>>, scanOrder(lists))

\* A recordFile that gathers the files seen before any occurrence.
recordFileUnion(st, fileId, path, compileMode, moduleId, depsBefore) ==
  IF fileId \notin DOMAIN st.files
  THEN [st EXCEPT
          !.files = (fileId :> [path |-> path,
                                compileMode |-> compileMode,
                                inferredDeps |-> depsBefore,
                                neededInModules |-> {moduleId}]) @@ st.files,
          !.keys = Append(st.keys, fileId)]
  ELSE IF st.files[fileId].compileMode # compileMode
  THEN [st EXCEPT !.err = path]
  ELSE [st EXCEPT
          !.files[fileId].inferredDeps = @ \cup depsBefore,
          !.files[fileId].neededInModules = @ \cup {moduleId}]

\* A recordFile that keeps the inferredDeps of the first occurrence.
recordFileFirstSeen(st, fileId, path, compileMode, moduleId, depsBefore) ==
  IF fileId \notin DOMAIN st.files
  THEN [st EXCEPT
          !.files = (fileId :> [path |-> path,
                                compileMode |-> compileMode,
                                inferredDeps |-> depsBefore,
                                neededInModules |-> {moduleId}]) @@ st.files,
          !.keys = Append(st.keys, fileId)]
  ELSE IF st.files[fileId].compileMode # compileMode
  THEN [st EXCEPT !.err = path]
  ELSE [st EXCEPT !.files[fileId].neededInModules = @ \cup {moduleId}]

\* recordFile of initFiles.  st = [files, keys, err]; err is the path of the
\* file found in two compilation modes, "" while there is none.
recordFile(st, fileId, path, compileMode, moduleId, depsBefore) ==
  IF fileId \notin DOMAIN st.files
  THEN [st EXCEPT
          !.files = (fileId :> [path |-> path,
                                compileMode |-> compileMode,
                                inferredDeps |-> depsBefore,
                                neededInModules |-> {moduleId}]) @@ st.files,
          !.keys = Append(st.keys, fileId)]
  ELSE IF st.files[fileId].compileMode # compileMode
  THEN [st EXCEPT
          !.files[fileId].inferredDeps = intersectSets(@, depsBefore),
          !.err = path]
  ELSE [st EXCEPT
          !.files[fileId].inferredDeps = intersectSets(@, depsBefore),
          !.files[fileId].neededInModules = @ \cup {moduleId}]

\* list.forEach(path => recordFile(..., seen); seen[fileId] = true)
RECURSIVE recordList(_, _, _, _, _, _)
recordList(st, seen, list, compileMode, moduleId, filePathToId) ==
  IF list = <<>> \/ st.err # "" THEN [st |-> st, seen |-> seen]
  ELSE LET path == Head(list)
           fileId == filePathToId[path]
       IN  recordList(recordFile(st, fileId, path, compileMode, moduleId, seen),
                      seen \cup {fileId}, Tail(list), compileMode, moduleId,
                      filePathToId)

\* One round of the sortedModuleIds.forEach of initFiles.
\* acc = [st, fileDeps, typeError]; lists[name] are the module's input lists.
initFilesOfModule(acc, mods, lists, filePathToId, moduleId) ==
  LET moduleName == mods[moduleId].name
  IN  IF moduleName \notin DOMAIN lists
      THEN [acc EXCEPT !.typeError = TRUE]   \* moduleSpec is undefined
      ELSE
      LET moduleSpec == lists[moduleName]
          deps == mods[moduleId].moduleDeps
          uncompiled0 == addSetValues(UNION {acc.fileDeps[d].uncompiled : d \in deps}, {})
          r1 == recordList(acc.st, uncompiled0, moduleSpec.dontCompileInputFiles,
                           UNCOMPILED, moduleId, filePathToId)
          nonNamespaced0 ==
            addSetValues(UNION {acc.fileDeps[d].uncompiledAndNonNamespaced : d \in deps},
                         r1.seen)
          r2 == recordList(r1.st, nonNamespaced0,
                           moduleSpec.nonClosureNamespacedInputFiles,
                           NON_NAMESPACED, moduleId, filePathToId)
          r3 == recordList(r2.st, r2.seen, moduleSpec.closureDeps, CLOSURE, moduleId,
                           filePathToId)
      IN  [acc EXCEPT
             !.st = r3.st,
             !.fileDeps = (moduleId :> [uncompiled |-> r1.seen,
                                        uncompiledAndNonNamespaced |-> r2.seen]) @@ @]

RECURSIVE initFilesLoop(_, _, _, _, _)
initFilesLoop(acc, mods, lists, filePathToId, ids) ==
  IF ids = <<>> \/ acc.typeError \/ acc.st.err # "" THEN acc
  ELSE initFilesLoop(initFilesOfModule(acc, mods, lists, filePathToId, Head(ids)),
                     mods, lists, filePathToId, Tail(ids))

initFiles(mods, sorted, lists, filePathToId) ==
  LET acc == initFilesLoop([st |-> [files |-> <<>>, keys |-> <<>>, err |-> ""],
                            fileDeps |-> <<>>, typeError |-> FALSE],
                           mods, lists, filePathToId, sorted)
  IN  IF acc.typeError
      THEN [ok |-> FALSE,
            error |-> [kind |-> "TypeError", names |-> <<>>, paths |-> <<>>],
            files |-> acc.st.files, keys |-> acc.st.keys]
      ELSE IF acc.st.err # ""
      THEN [ok |-> FALSE,
            error |-> [kind |-> "MixedCompileClass", names |-> <<>>,
                       paths |-> <<acc.st.err>>],
            files |-> acc.st.files, keys |-> acc.st.keys]
      ELSE [ok |-> TRUE, error |-> NoError,
            files |-> acc.st.files, keys |-> acc.st.keys]

\* A getSortedFileIds that returns the files dependents first.
RECURSIVE Reversed(_)
Reversed(s) == IF s = <<>> THEN <<>> ELSE Append(Reversed(Tail(s)), Head(s))

getSortedFileIdsDependentsFirst(fs, keys) ==
  LET depGraph == [f \in Range(keys) |-> fs[f].inferredDeps]
      r == topSortNodes(keys, depGraph)
  IN  [ok |-> r.ok, error |-> NoError, sorted |-> Reversed(r.sortedNodes)]

getSortedFileIds(fs, keys) ==
  LET depGraph == [f \in Range(keys) |-> fs[f].inferredDeps]
      r == topSortNodes(keys, depGraph)
  IN  IF r.ok
      THEN [ok |-> TRUE, error |-> NoError, sorted |-> r.sortedNodes]
      ELSE [ok |-> FALSE,
            error |-> [kind |-> "InferredFileCycle", names |-> <<>>,
                       paths |-> [k \in DOMAIN r.remainingNodes |->
                                    fs[r.remainingNodes[k]].path]],
            sorted |-> <<>>]

-----------------------------------------------------------------------------
(* js-module-manager.js: choosing the module of a file *)

\* The UTF-16 code units of String(n), n >= 0.
RECURSIVE DecimalCodes(_)
DecimalCodes(n) ==
  IF n < 10 THEN <<48 + n>> ELSE Append(DecimalCodes(n \div 10), 48 + (n % 10))

\* The code units of [numDeps, moduleId].toString(): "<numDeps>,<moduleId>",
\* where module ID k is the character 'A'+k-1 and the virtual base is '@'.
PairString(pair) == DecimalCodes(pair[1]) \o <<44, 64 + pair[2]>>

\* s < t for two strings, as JavaScript compares them (by code units).
RECURSIVE StringLess(_, _)
StringLess(s, t) ==
  IF t = <<>> THEN FALSE
  ELSE IF s = <<>> THEN TRUE
  ELSE IF Head(s) # Head(t) THEN Head(s) < Head(t)
  ELSE StringLess(Tail(s), Tail(t))

\* Array.prototype.sort() with no comparator: the elements ordered by their
\* string forms (the pairs' strings are distinct: the module IDs are).
RECURSIVE DefaultSort(_)
DefaultSort(pairs) ==
  IF pairs = {} THEN <<>>
  ELSE LET first == CHOOSE p \in pairs :
                      \A q \in pairs \ {p} : StringLess(PairString(p), PairString(q))
       IN  <<first>> \o DefaultSort(pairs \ {first})

\* The loop of chooseLowestModules, from index k down to 1.
RECURSIVE lowestFrom(_, _, _)
lowestFrom(depCountModulePairs, k, maxDepth) ==
  IF k < 1 \/ depCountModulePairs[k][1] < maxDepth THEN <<>>
  ELSE <<depCountModulePairs[k][2]>> \o lowestFrom(depCountModulePairs, k - 1, maxDepth)

chooseLowestModules(mods, moduleSet) ==
  LET depCountModulePairs ==
        DefaultSort({<<Cardinality(mods[id].transitiveModuleDeps), id>> : id \in moduleSet})
      maxDepth == depCountModulePairs[Len(depCountModulePairs)][1]
  IN  lowestFrom(depCountModulePairs, Len(depCountModulePairs), maxDepth)

\* serializeModuleSet: the sorted IDs joined, one key per set.
serializeModuleSet(moduleSet) == moduleSet

\* The intersection of the transitive deps of the modules of a set.
commonModuleDepsOf(mods, neededInModules) ==
  LET one == CHOOSE m \in neededInModules : TRUE
      RECURSIVE inter(_, _)
      inter(acc, rest) ==
        IF rest = {} THEN acc
        ELSE LET m == CHOOSE x \in rest : TRUE
             IN  inter(intersectSets(acc, mods[m].transitiveModuleDeps), rest \ {m})
  IN  inter(mods[one].transitiveModuleDeps, neededInModules \ {one})

\* Returns the list of LCA modules and the memo after the call.
calcLcaModules(mods, fs, memo, fileId) ==
  LET neededInModules == fs[fileId].neededInModules
      key == serializeModuleSet(neededInModules)
  IN  IF key \in DOMAIN memo
      THEN [lcaModules |-> memo[key], memo |-> memo]
      ELSE LET lcaModules ==
                 chooseLowestModules(mods, commonModuleDepsOf(mods, neededInModules))
           IN  [lcaModules |-> lcaModules, memo |-> (key :> lcaModules) @@ memo]

numMovesRequired(fs, fileId, moduleId) ==
  Cardinality({d \in fs[fileId].inferredDeps : moduleId \notin fs[d].neededInModules})

\* underscore.min(list, iterator): the first element of the list whose
\* computed value is smaller than that of every element before it;
\* computed[k] is the iterator's value for list[k].
underscoreMin(list, computed) ==
  LET k == CHOOSE k \in DOMAIN list :
             /\ \A j \in DOMAIN list : computed[k] <= computed[j]
             /\ \A j \in 1..(k - 1) : computed[j] > computed[k]
  IN  list[k]

chooseModuleFor(mods, fs, memo, fileId) ==
  LET lca == calcLcaModules(mods, fs, memo, fileId)
      lcaModules == lca.lcaModules
  IN  [memo |-> lca.memo,
       moduleId |->
         IF Len(lcaModules) = 1 THEN lcaModules[1]
         ELSE underscoreMin(lcaModules,
                            [k \in DOMAIN lcaModules |->
                               numMovesRequired(fs, fileId, lcaModules[k])])]

-----------------------------------------------------------------------------
(* The projects given to calcInputFiles *)

\* Free projects: every module may list any declared module, itself and one
\* undeclared name.
FreeGraphs ==
  UNION {[1..n -> SUBSET ((1..n) \cup {DNE})] : n \in FreeModuleCounts}

\* Layered projects (the module graph of the test 'chooses among LCA modules
\* at the same depth...', its base stretched to a chain of k modules): a
\* chain 1 <- 2 <- ... <- k, two modules k+1, k+2 loaded after k, and two
\* modules k+3, k+4 loaded after both k+1 and k+2.
Layered(k) ==
  [m \in 1..(k + 4) |->
     IF m = 1 THEN {}
     ELSE IF m <= k + 2 THEN {IF m <= k THEN m - 1 ELSE k}
     ELSE {k + 1, k + 2}]

LayeredGraphs == {Layered(1), Layered(DeepLen)}

IsLayered(specs) == specs \in LayeredGraphs

\* Projects with two roots (the module graph of the test 'fails if any module
\* has more than one root module' and its neighbours): modules 1 and 2 are
\* roots, module 3 is loaded after one of them and module 4 after any of the
\* three.
TwoRootGraphs ==
  {<<{}, {}, d3, d4>> : d3 \in {{1}, {2}}, d4 \in (SUBSET {1, 2, 3}) \ {{}}}

\* Lists of k distinct paths (resolveAnyGlobPatternsAsync and the Closure
\* dependency calculator give no path twice in one list).
ListsOfLen(P, k) == {s \in [1..k -> P] : IsDupFree(s)}

NoInputs ==
  [dontCompileInputFiles |-> <<>>, nonClosureNamespacedInputFiles |-> <<>>,
   closureDeps |-> <<>>]

\* The first n path names.
FirstPaths(n) == {PathNames[j] : j \in {h \in DOMAIN PathNames : h <= n}}

\* The program tells paths apart and never looks into them, so of the projects
\* that differ in the names of their paths alone one is drawn: the one whose
\* paths are named in the order in which indexFiles meets them.  s is a
\* stretch of that order before which the first used names have been met.
NamedInOrder(s, used) ==
  \A k \in DOMAIN s : \E j \in DOMAIN PathNames :
    /\ s[k] = PathNames[j]
    /\ \A h \in (used + 1)..(j - 1) : \E g \in 1..(k - 1) : s[g] = PathNames[h]

\* The input lists of one module that hold k paths in all, in lists of the
\* given classes, after the first used names have been met.
ModuleSpecs(classes, k, used) ==
  LET splits == {t \in (0..k) \X (0..k) \X (0..k) :
                   /\ t[1] + t[2] + t[3] = k
                   /\ t[1] > 0 => UNCOMPILED \in classes
                   /\ t[2] > 0 => NON_NAMESPACED \in classes
                   /\ t[3] > 0 => CLOSURE \in classes}
      P == FirstPaths(used + k)
      all == UNION {{[dontCompileInputFiles |-> d, nonClosureNamespacedInputFiles |-> n,
                      closureDeps |-> c] :
                       d \in ListsOfLen(P, t[1]),
                       n \in ListsOfLen(P, t[2]),
                       c \in ListsOfLen(P, t[3])} :
                    t \in splits}
  IN  {ms \in all : NamedInOrder(scanOrder(<<ms>>), used)}

\* The input lists of the modules of a project, at most budget paths in all;
\* classesOf[m] are the classes of the lists of the m-th module.
RECURSIVE InputsOf(_, _, _)
InputsOf(classesOf, budget, used) ==
  IF classesOf = <<>> THEN {<<>>}
  ELSE UNION {UNION {{<<ms>> \o rest :
                        rest \in InputsOf(Tail(classesOf), budget - k,
                                          Cardinality(FirstPaths(used)
                                                        \cup Range(scanOrder(<<ms>>))))} :
                     ms \in ModuleSpecs(Head(classesOf), k, used)} :
              k \in 0..budget}

\* Free projects: lists of every class in every module.
FreeInputs ==
  [n \in FreeModuleCounts |->
     InputsOf([m \in 1..n |-> {UNCOMPILED, NON_NAMESPACED, CLOSURE}], MaxOcc, 0)]

\* Layered projects: nonClosureNamespacedInputFiles in the two middle modules,
\* Closure dependencies in the two top modules.
LayeredInputs ==
  InputsOf(<<{NON_NAMESPACED}, {NON_NAMESPACED}, {CLOSURE}, {CLOSURE}>>, MaxLayeredOcc, 0)

\* The input lists that may come with a module graph.
InputFileChoices(specs) ==
  IF IsLayered(specs)
  THEN {[m \in 1..(Len(specs) - 4) |-> NoInputs] \o crown : crown \in LayeredInputs}
  ELSE IF specs \in TwoRootGraphs
  THEN {[m \in DOMAIN specs |-> NoInputs]}
  ELSE FreeInputs[Len(specs)]

-----------------------------------------------------------------------------
(* calcInputFiles as a state machine *)

NoPlacement == [file |-> 0, module |-> 0 - 1, before |-> <<>>]

\* No call of calcInputFiles has been made.
NoCall ==
  /\ pc = "start"
  /\ error = NoError
  /\ jsModules = <<>>
  /\ inputFiles = <<>>
  /\ modules = <<>>
  /\ moduleKeys = <<>>
  /\ sortedModuleIds = <<>>
  /\ files = <<>>
  /\ fileKeys = <<>>
  /\ sortedFileIds = <<>>
  /\ memoizedLcas = <<>>
  /\ inputsByModule = <<>>
  /\ i = 0
  /\ lastPlaced = NoPlacement
  /\ result = <<>>
  /\ calls = 0
  /\ kept = <<>>

\* topSortNodes is not called on its own.
NoSort == tsGraph = NoGraph /\ tsResult = NotSorted

\* No list is given to the glob resolver.
NoGlob == filesAndPatterns = <<>> /\ resolvedFiles = <<>> /\ allFiles = NotResolved

\* No final JS file is written.
NoOutput == disk = <<>> /\ outputModules = <<>> /\ tasks = <<>>

Init ==
  /\ NoCall
  /\ NoSort
  /\ NoGlob
  /\ NoOutput

\* new ModuleManager(...): indexModules and initModules, at position at of
\* the call, on a module graph of the set graphs.
InitModulesOn(at, graphs) ==
  /\ pc = at
  /\ \E specs \in graphs :
       LET r == initModules(specs)
       IN  /\ jsModules' = specs
           /\ modules' = r.modules
           /\ moduleKeys' = r.keys
           /\ error' = r.error
           /\ pc' = IF r.ok THEN "sortModules" ELSE "failed"
  /\ UNCHANGED <<inputFiles, sortedModuleIds, files, fileKeys, sortedFileIds,
                 memoizedLcas, inputsByModule, i, lastPlaced, result>>
  /\ UNCHANGED callerVars

\* The constructor on a project whose module graph is drawn here.
InitModules == InitModulesOn("start", FreeGraphs \cup LayeredGraphs \cup TwoRootGraphs)

GetSortedModuleIds ==
  /\ pc = "sortModules"
  /\ LET r == getSortedModuleIds(modules, moduleKeys)
     IN  /\ sortedModuleIds' = r.sorted
         /\ error' = r.error
         /\ pc' = IF r.ok THEN "transDeps" ELSE "failed"
  /\ UNCHANGED <<jsModules, inputFiles, modules, moduleKeys, files, fileKeys,
                 sortedFileIds, memoizedLcas, inputsByModule, i, lastPlaced, result>>
  /\ UNCHANGED callerVars

FillInTransitiveModuleDeps ==
  /\ pc = "transDeps"
  /\ LET r == fillInTransitiveModuleDeps(modules, moduleKeys, sortedModuleIds)
     IN  /\ modules' = r.modules
         /\ error' = r.error
         /\ pc' = IF r.ok THEN "initFiles" ELSE "failed"
  /\ UNCHANGED <<jsModules, inputFiles, moduleKeys, sortedModuleIds, files, fileKeys,
                 sortedFileIds, memoizedLcas, inputsByModule, i, lastPlaced, result>>
  /\ UNCHANGED callerVars

\* indexFiles and initFiles, on file lists of the set choices.
InitFilesOn(choices) ==
  /\ pc = "initFiles"
  /\ \E lists \in choices :
       LET r == initFiles(modules, sortedModuleIds, lists, indexFiles(lists))
       IN  /\ inputFiles' = lists
           /\ files' = r.files
           /\ fileKeys' = r.keys
           /\ error' = r.error
           /\ pc' = IF r.ok THEN "sortFiles" ELSE "failed"
  /\ UNCHANGED <<jsModules, modules, moduleKeys, sortedModuleIds, sortedFileIds,
                 memoizedLcas, inputsByModule, i, lastPlaced, result>>
  /\ UNCHANGED callerVars

\* The modules' file lists, which no earlier stage reads (indexFiles' IDs are
\* used by initFiles alone), are drawn here.
InitFiles == InitFilesOn(InputFileChoices(jsModules))

\* getSortedFileIds, and this.memoizedLcas = {}, which ends the constructor.
GetSortedFileIds ==
  /\ pc = "sortFiles"
  /\ LET r == getSortedFileIds(files, fileKeys)
     IN  /\ sortedFileIds' = r.sorted
         /\ error' = r.error
         /\ pc' = IF r.ok THEN "calcInputs" ELSE "failed"
  /\ memoizedLcas' = <<>>
  /\ UNCHANGED <<jsModules, inputFiles, modules, moduleKeys, sortedModuleIds, files,
                 fileKeys, inputsByModule, i, lastPlaced, result>>
  /\ UNCHANGED callerVars

\* A variant of the initialisation below, against which the independence of
\* the calls is tried: the outputs of the call before are kept.
carriedOutputs(mods, keys) ==
  [id \in Range(keys) |->
     IF id \in DOMAIN inputsByModule
     THEN [inputsByModule[id] EXCEPT !.name = mods[id].name]
     ELSE [name |-> mods[id].name, compiledInputFiles |-> <<>>,
           dontCompileInputFiles |-> <<>>]]

\* calcInputs' new inputsByModule: an empty output for every module.
emptyOutputs(mods, keys) ==
  [id \in Range(keys) |->
     [name |-> mods[id].name, compiledInputFiles |-> <<>>,
      dontCompileInputFiles |-> <<>>]]

\* calcInputs up to its loop.
CalcInputsBegin ==
  /\ pc = "calcInputs"
  /\ inputsByModule' = emptyOutputs(modules, moduleKeys)
  /\ i' = Len(sortedFileIds)
  /\ pc' = "place"
  /\ UNCHANGED <<error, jsModules, inputFiles, modules, moduleKeys, sortedModuleIds,
                 files, fileKeys, sortedFileIds, memoizedLcas, lastPlaced, result>>
  /\ UNCHANGED callerVars

\* Variants of the two updates of a placement step, against which the
\* properties below are tried.
markNothing(fs, fileId, bestModuleId) == fs

markFileOnly(fs, fileId, bestModuleId) ==
  [fs EXCEPT ![fileId].neededInModules = @ \cup {bestModuleId}]

addToAllNeeding(byModule, fs, fileId, bestModuleId) ==
  [id \in DOMAIN byModule |->
     IF id \in fs[fileId].neededInModules \cup {bestModuleId}
     THEN [byModule[id] EXCEPT !.compiledInputFiles = Unshift(@, fs[fileId].path)]
     ELSE byModule[id]]

addCompiledOnly(byModule, fs, fileId, bestModuleId) ==
  IF fs[fileId].compileMode = UNCOMPILED
  THEN byModule
  ELSE [byModule EXCEPT
          ![bestModuleId].compiledInputFiles = Unshift(@, fs[fileId].path)]

addAtEnd(byModule, fs, fileId, bestModuleId) ==
  IF fs[fileId].compileMode = UNCOMPILED
  THEN [byModule EXCEPT
          ![bestModuleId].dontCompileInputFiles = Append(@, fs[fileId].path)]
  ELSE [byModule EXCEPT
          ![bestModuleId].compiledInputFiles = Append(@, fs[fileId].path)]

addClosureAsCompiled(byModule, fs, fileId, bestModuleId) ==
  IF fs[fileId].compileMode = CLOSURE
  THEN [byModule EXCEPT
          ![bestModuleId].compiledInputFiles = Unshift(@, fs[fileId].path)]
  ELSE [byModule EXCEPT
          ![bestModuleId].dontCompileInputFiles = Unshift(@, fs[fileId].path)]

markNeededAlways(fs, fileId, bestModuleId) ==
  [f \in DOMAIN fs |->
     IF f = fileId \/ f \in fs[fileId].inferredDeps
     THEN [fs[f] EXCEPT !.neededInModules = @ \cup {bestModuleId}]
     ELSE fs[f]]

\* The neededInModules after file fileId went to module bestModuleId.
markNeeded(fs, fileId, bestModuleId) ==
  IF bestModuleId \in fs[fileId].neededInModules THEN fs
  ELSE [f \in DOMAIN fs |->
          IF f = fileId \/ f \in fs[fileId].inferredDeps
          THEN [fs[f] EXCEPT !.neededInModules = @ \cup {bestModuleId}]
          ELSE fs[f]]

\* The buckets after file fileId went to module bestModuleId.
addToModule(byModule, fs, fileId, bestModuleId) ==
  IF fs[fileId].compileMode = UNCOMPILED
  THEN [byModule EXCEPT
          ![bestModuleId].dontCompileInputFiles = Unshift(@, fs[fileId].path)]
  ELSE [byModule EXCEPT
          ![bestModuleId].compiledInputFiles = Unshift(@, fs[fileId].path)]

\* One round of calcInputs' loop.
PlaceFile ==
  /\ pc = "place"
  /\ i >= 1
  /\ LET fileId == sortedFileIds[i]
         c == chooseModuleFor(modules, files, memoizedLcas, fileId)
         bestModuleId == c.moduleId
     IN  /\ memoizedLcas' = c.memo
         /\ inputsByModule' = addToModule(inputsByModule, files, fileId, bestModuleId)
         /\ files' = markNeeded(files, fileId, bestModuleId)
         /\ lastPlaced' = [file |-> fileId, module |-> bestModuleId, before |-> files]
  /\ i' = i - 1
  /\ UNCHANGED <<pc, error, jsModules, inputFiles, modules, moduleKeys, sortedModuleIds,
                 fileKeys, sortedFileIds, result>>
  /\ UNCHANGED callerVars

\* The end of calcInputs: the modules' outputs in dependency order.
CalcInputsReturn ==
  /\ pc = "place"
  /\ i < 1
  /\ result' = [k \in DOMAIN sortedModuleIds |-> inputsByModule[sortedModuleIds[k]]]
  /\ pc' = "done"
  /\ UNCHANGED <<error, jsModules, inputFiles, modules, moduleKeys, sortedModuleIds,
                 files, fileKeys, sortedFileIds, memoizedLcas, inputsByModule, i,
                 lastPlaced>>
  /\ UNCHANGED callerVars

Next ==
  \/ InitModules
  \/ GetSortedModuleIds
  \/ FillInTransitiveModuleDeps
  \/ InitFiles
  \/ GetSortedFileIds
  \/ CalcInputsBegin
  \/ PlaceFile
  \/ CalcInputsReturn

Spec == Init /\ [][Next]_vars

-----------------------------------------------------------------------------
(* calcInputFiles called on a project that is given whole *)

\* Given projects list at most this many file occurrences.
MaxGivenOcc == 2

\* The module graphs of the given projects: every graph of up to two modules,
\* and the graphs of two roots and a third module, each module listing any
\* declared module, itself and one undeclared name.
GivenGraphs ==
  UNION {[1..n -> SUBSET ((1..n) \cup {DNE})] : n \in {0, 1, 2}}
    \cup {<<{}, {}, d3>> : d3 \in SUBSET {1, 2, 3, DNE}}

GivenProjects ==
  UNION {{[jsModules |-> g, inputFiles |-> lists] :
            lists \in InputsOf([m \in DOMAIN g |-> {UNCOMPILED, NON_NAMESPACED, CLOSURE}],
                               MaxGivenOcc, 0)} :
         g \in GivenGraphs}

\* What the caller has got from the call under way: the list returned or the
\* exception thrown.
Outcome ==
  [project |-> [jsModules |-> jsModules, inputFiles |-> inputFiles],
   thrown |-> error, returned |-> result]

\* calcInputFiles(projectOptions, transitiveClosureDeps) is called on a
\* project of the set projects, the caller having made fewer than limit
\* calls and keeping what the call before gave.  Every call builds a
\* ModuleManager of its own, whose fields the constructor assigns one after
\* the other; until then the variables keep what the call before left in them.
CallOn(projects, limit) ==
  /\ pc \in {"start", "done", "failed"}
  /\ calls < limit
  /\ \E project \in projects :
       /\ jsModules' = project.jsModules
       /\ inputFiles' = project.inputFiles
  /\ calls' = calls + 1
  /\ pc' = "called"
  /\ error' = NoError
  /\ result' = <<>>
  /\ lastPlaced' = NoPlacement
  /\ kept' = IF calls = 0 THEN kept ELSE Append(kept, Outcome)
  /\ UNCHANGED <<modules, moduleKeys, sortedModuleIds, files, fileKeys, sortedFileIds,
                 memoizedLcas, inputsByModule, i, tsGraph, tsResult, ioVars>>

CallGiven == CallOn(GivenProjects, 1)

\* The stages of the constructor on the project of the call.
InitModulesCalled == InitModulesOn("called", {jsModules})

InitFilesCalled == InitFilesOn({inputFiles})

NextGiven ==
  \/ CallGiven
  \/ InitModulesCalled
  \/ GetSortedModuleIds
  \/ FillInTransitiveModuleDeps
  \/ InitFilesCalled
  \/ GetSortedFileIds
  \/ CalcInputsBegin
  \/ PlaceFile
  \/ CalcInputsReturn

SpecGiven == Init /\ [][NextGiven]_vars

-----------------------------------------------------------------------------
(* calcInputFiles called several times *)

\* The caller makes at most this many calls.
MaxCalls == 3

\* The projects of the calls: three modules in a chain or in a fork, or with
\* a cycle; the second and the third module have Closure dependencies among
\* p.js and q.js.
CallGraphs == {<<{}, {1}, {2}>>, <<{}, {1}, {1}>>, <<{}, {3}, {2}>>}

CallProjects ==
  {[jsModules |-> g,
    inputFiles |-> <<NoInputs, [NoInputs EXCEPT !.closureDeps = c2],
                     [NoInputs EXCEPT !.closureDeps = c3]>>] :
     g \in CallGraphs,
     c2 \in {<<>>, <<"p.js", "q.js">>},
     c3 \in {<<"p.js">>, <<"q.js", "p.js">>}}

CallAgain == CallOn(CallProjects, MaxCalls)

NextCalls ==
  \/ CallAgain
  \/ InitModulesCalled
  \/ GetSortedModuleIds
  \/ FillInTransitiveModuleDeps
  \/ InitFilesCalled
  \/ GetSortedFileIds
  \/ CalcInputsBegin
  \/ PlaceFile
  \/ CalcInputsReturn

SpecCalls == Init /\ [][NextCalls]_vars

-----------------------------------------------------------------------------
(* topSortNodes called on a graph *)

\* The node names of the graphs: the empty string and two others.
NodeNames == {EmptyName, 1, 2}

\* The graphs given to topSortNodes: up to three nodes in any key order,
\* every node with edges to any nodes of the graph, itself included.
SortGraphs ==
  UNION {{[keys |-> keys, edges |-> edges] :
            edges \in [Range(keys) -> SUBSET Range(keys)]} :
         keys \in UNION {ListsOfLen(NodeNames, n) : n \in 0..Cardinality(NodeNames)}}

InitSort ==
  /\ NoCall
  /\ tsGraph \in SortGraphs
  /\ tsResult = NotSorted
  /\ NoGlob
  /\ NoOutput

\* topSortNodes(graph): sortedNodes is returned if ok, CycleError(remainingNodes)
\* is thrown if not.
TopSortNodes ==
  /\ tsResult = NotSorted
  /\ tsResult' = topSortNodes(tsGraph.keys, tsGraph.edges)
  /\ UNCHANGED <<pc, error, jsModules, inputFiles, modules, moduleKeys, sortedModuleIds,
                 files, fileKeys, sortedFileIds, memoizedLcas, inputsByModule, i,
                 lastPlaced, result, calls, kept, tsGraph, ioVars>>

NextSort == TopSortNodes

SpecSort == InitSort /\ [][NextSort]_vars

-----------------------------------------------------------------------------
(* file-matcher.js: resolveAnyGlobPatternsAsync *)

\* The lists given to the resolver hold at most this many files and patterns.
MaxItems == 3

\* Paths and patterns are strings, modelled as sequences of characters.
BACKSLASH == "\\"
SLASH == "/"

\* The characters of IS_GLOB_REGEX.
GlobChars == {"^", "$", "|", "?", "*", "+", "(", ")", "[", "]", "{", "}"}

isGlobPattern(fileOrPattern) ==
  \E k \in DOMAIN fileOrPattern : fileOrPattern[k] \in GlobChars

\* filePath.replace(ALL_BACKSLASHES, '/')
convertBackslashes(filePath) ==
  [k \in DOMAIN filePath |-> IF filePath[k] = BACKSLASH THEN SLASH ELSE filePath[k]]

\* allFiles.map(convertBackslashes)
RECURSIVE mapConvertBackslashes(_)
mapConvertBackslashes(list) ==
  IF list = <<>> THEN <<>>
  ELSE <<convertBackslashes(Head(list))>> \o mapConvertBackslashes(Tail(list))

\* underscore.unique: the first occurrence of every element, in order.
RECURSIVE unique(_)
unique(list) ==
  IF list = <<>> THEN <<>>
  ELSE LET front == unique(SubSeq(list, 1, Len(list) - 1))
           last == list[Len(list)]
       IN  IF last \in Range(front) THEN front ELSE Append(front, last)

\* The forEach of insertResolvedFiles: a key of resolvedFiles gives way to its
\* resolved files, any other entry is pushed as it is.
RECURSIVE pushAll(_, _)
pushAll(list, resolved) ==
  IF list = <<>> THEN <<>>
  ELSE (IF Head(list) \in DOMAIN resolved THEN resolved[Head(list)] ELSE <<Head(list)>>)
         \o pushAll(Tail(list), resolved)

insertResolvedFiles(list, resolved) == unique(pushAll(list, resolved))

\* The then-callback of resolveAnyGlobPatternsAsync.
thenInsertAndConvert(list, resolved) ==
  mapConvertBackslashes(insertResolvedFiles(list, resolved))

\* The files and patterns a list may hold: a file, a file of a subdirectory
\* written with either separator, and two patterns.
GivenEntries ==
  {<<"f">>, <<"s", SLASH, "g">>, <<"s", BACKSLASH, "g">>, <<"*">>, <<"s", SLASH, "*">>}

\* The paths glob finds under rootSrcDir, in either separator, and the lists
\* it may resolve a pattern to.
GlobbedPaths == {<<"f">>, <<"s", SLASH, "g">>, <<"s", BACKSLASH, "g">>}

GlobResults == UNION {ListsOfLen(GlobbedPaths, n) : n \in 0..Cardinality(GlobbedPaths)}

InitGlob ==
  /\ NoCall
  /\ NoSort
  /\ NoOutput
  /\ filesAndPatterns \in UNION {[1..n -> GivenEntries] : n \in 0..MaxItems}
  /\ resolvedFiles = <<>>
  /\ allFiles = NotResolved

\* The glob tasks of resolveGlobsAsync that have not called back.
PendingGlobs ==
  {e \in Range(filesAndPatterns) : isGlobPattern(e) /\ e \notin DOMAIN resolvedFiles}

\* One glob task of async.parallel calls back with its files.
ResolveGlob ==
  /\ allFiles = NotResolved
  /\ \E pattern \in PendingGlobs : \E found \in GlobResults :
       resolvedFiles' = (pattern :> found) @@ resolvedFiles
  /\ UNCHANGED <<pc, error, jsModules, inputFiles, modules, moduleKeys, sortedModuleIds,
                 files, fileKeys, sortedFileIds, memoizedLcas, inputsByModule, i,
                 lastPlaced, result, calls, kept, tsGraph, tsResult,
                 filesAndPatterns, allFiles, disk, outputModules, tasks>>

\* One glob task calls back with an error: the promise is rejected.
GlobFails ==
  /\ allFiles = NotResolved
  /\ PendingGlobs # {}
  /\ allFiles' = [state |-> "rejected", value |-> <<>>]
  /\ UNCHANGED <<pc, error, jsModules, inputFiles, modules, moduleKeys, sortedModuleIds,
                 files, fileKeys, sortedFileIds, memoizedLcas, inputsByModule, i,
                 lastPlaced, result, calls, kept, tsGraph, tsResult,
                 filesAndPatterns, resolvedFiles, disk, outputModules, tasks>>

\* All glob tasks have called back: insertResolvedFiles, convertBackslashes.
ThenInsertResolved ==
  /\ allFiles = NotResolved
  /\ PendingGlobs = {}
  /\ allFiles' = [state |-> "fulfilled",
                  value |-> thenInsertAndConvert(filesAndPatterns, resolvedFiles)]
  /\ UNCHANGED <<pc, error, jsModules, inputFiles, modules, moduleKeys, sortedModuleIds,
                 files, fileKeys, sortedFileIds, memoizedLcas, inputsByModule, i,
                 lastPlaced, result, calls, kept, tsGraph, tsResult,
                 filesAndPatterns, resolvedFiles, disk, outputModules, tasks>>

NextGlob ==
  \/ ResolveGlob
  \/ GlobFails
  \/ ThenInsertResolved

SpecGlob == InitGlob /\ [][NextGlob]_vars

-----------------------------------------------------------------------------
(* common.js: writeTextFilesAsync; js-builder.js: writeFinalModuleJsFile *)

\* The lists given to writeTextFilesAsync hold at most this many files.
MaxInputs == 3

\* What the output of the final JS files leaves alone.
nonOutputVars ==
  <<pc, error, jsModules, inputFiles, modules, moduleKeys, sortedModuleIds,
    files, fileKeys, sortedFileIds, memoizedLcas, inputsByModule, i,
    lastPlaced, result, calls, kept, tsGraph, tsResult,
    filesAndPatterns, resolvedFiles, allFiles>>

\* File paths: a directory, a name (a number) and the rest of the file name.
SourceFile(n) == [dir |-> "src", name |-> n, suffix |-> ".js"]

\* path.join(outDirs.build, jsModule.name + '.js')
BuildFile(moduleName) == [dir |-> "build", name |-> moduleName, suffix |-> ".js"]

\* path.join(outDirs.tmp, moduleName + '.js')
getModuleCompiledJsFile(moduleName) ==
  [dir |-> "tmp", name |-> moduleName, suffix |-> ".js"]

\* The content of a file is a sequence of chunks; a file that the build only
\* reads holds one chunk, named after the file.
ContentOf(path) == <<path>>

NoFailure == [op |-> "none", path |-> SourceFile(0)]

\* writeFinalModuleJsFile(inputFiles, outputFilePath) has been called: the
\* stream is created, not yet open, and async.series has started the first
\* queued write, whose fs.readFile is under way.  k is the position of the
\* queued write under way; phase tells which callback is awaited: "read"
\* (fs.readFile), "write" (outputStream.write), "end" (outputJsFile.end),
\* "closed" (the promise is resolved) or "failed" (it is rejected with err).
newTask(inputFilesGiven, outputFilePath) ==
  [inputFiles |-> inputFilesGiven,
   outputFilePath |-> outputFilePath,
   opened |-> FALSE,
   k |-> 1,
   phase |-> IF inputFilesGiven = <<>> THEN "end" ELSE "read",
   fileContent |-> <<>>,
   ended |-> FALSE,
   err |-> NoFailure]

\* readAsync is resolved with the file's content: outputStream.write is called.
afterRead(task, content) ==
  [task EXCEPT !.phase = "write", !.fileContent = content]

\* A variant of afterFailure below: the next queued write is started.
afterFailureGoingOn(task, op) ==
  [task EXCEPT !.k = @ + 1,
               !.phase = IF task.k = Len(task.inputFiles) THEN "end" ELSE "read",
               !.fileContent = <<>>]

\* fs.readFile or outputStream.write calls back with an error: callbackFn(err)
\* ends async.series and rejects the promise.
afterFailure(task, op) ==
  [task EXCEPT !.phase = "failed",
               !.err = [op |-> op, path |-> task.inputFiles[task.k]]]

\* writeAsync is resolved: callbackFn(null) lets async.series start the next
\* queued write, or resolve the promise after the last one, and then
\* writeFinalModuleJsFile calls outputJsFile.end.
afterWrite(task) ==
  [task EXCEPT !.k = @ + 1,
               !.phase = IF task.k = Len(task.inputFiles) THEN "end" ELSE "read",
               !.fileContent = <<>>]

\* fs.createWriteStream's open completes: the file is created or truncated.
OpenStream(t) ==
  /\ ~tasks[t].opened
  /\ tasks' = [tasks EXCEPT ![t].opened = TRUE]
  /\ disk' = (tasks[t].outputFilePath :> <<>>) @@ disk
  /\ UNCHANGED <<nonOutputVars, outputModules>>

\* fs.readFile calls back with the content the file has now.
ReadFile(t) ==
  /\ tasks[t].phase = "read"
  /\ tasks[t].inputFiles[tasks[t].k] \in DOMAIN disk
  /\ tasks' = [tasks EXCEPT ![t] = afterRead(@, disk[tasks[t].inputFiles[tasks[t].k]])]
  /\ UNCHANGED <<nonOutputVars, outputModules, disk>>

\* fs.readFile calls back with an error (the file does not exist, or any
\* other failure).
ReadFileFails(t) ==
  /\ tasks[t].phase = "read"
  /\ tasks' = [tasks EXCEPT ![t] = afterFailure(@, "read")]
  /\ UNCHANGED <<nonOutputVars, outputModules, disk>>

\* outputStream.write calls back: the content is in the file.
WriteContent(t) ==
  /\ tasks[t].phase = "write"
  /\ tasks[t].opened
  /\ disk' = [disk EXCEPT ![tasks[t].outputFilePath] = @ \o tasks[t].fileContent]
  /\ tasks' = [tasks EXCEPT ![t] = afterWrite(@)]
  /\ UNCHANGED <<nonOutputVars, outputModules>>

\* outputStream.write calls back with an error.
WriteContentFails(t) ==
  /\ tasks[t].phase = "write"
  /\ tasks' = [tasks EXCEPT ![t] = afterFailure(@, "write")]
  /\ UNCHANGED <<nonOutputVars, outputModules, disk>>

\* outputJsFile.end calls back: the stream is closed and the promise of
\* writeFinalModuleJsFile is resolved.
EndStream(t) ==
  /\ tasks[t].phase = "end"
  /\ tasks[t].opened
  /\ tasks' = [tasks EXCEPT ![t].phase = "closed", ![t].ended = TRUE]
  /\ UNCHANGED <<nonOutputVars, outputModules, disk>>

\* The files that a single writeFinalModuleJsFile call is given.
GivenSources == {SourceFile(1), SourceFile(2), SourceFile(3)}

InitWrite ==
  /\ NoCall
  /\ NoSort
  /\ NoGlob
  /\ outputModules = <<>>
  /\ disk = [path \in GivenSources |-> ContentOf(path)]
  /\ \E list \in UNION {[1..n -> GivenSources] : n \in 0..MaxInputs} :
       tasks = <<newTask(list, BuildFile(1))>>

NextWrite ==
  \/ \E t \in DOMAIN tasks : OpenStream(t)
  \/ \E t \in DOMAIN tasks : ReadFile(t)
  \/ \E t \in DOMAIN tasks : ReadFileFails(t)
  \/ \E t \in DOMAIN tasks : WriteContent(t)
  \/ \E t \in DOMAIN tasks : WriteContentFails(t)
  \/ \E t \in DOMAIN tasks : EndStream(t)

SpecWrite == InitWrite /\ [][NextWrite]_vars

-----------------------------------------------------------------------------
(* js-builder.js: outputFinalJsAsync *)

\* The projects written out have at most this many modules besides the
\* virtual base module.
MaxRoots == 2

\* getVirtualBaseModuleFile returns null.
NoFile == [dir |-> "none", name |-> 0, suffix |-> ""]

\* path.join(outDirs.tmp, VIRTUAL_BASE_MODULE + '_complete.js')
VirtualBaseCompleteFile ==
  [dir |-> "tmp", name |-> VIRTUAL_BASE_MODULE, suffix |-> "_complete.js"]

getVirtualBaseModuleFile(jsModulesGiven) ==
  IF jsModulesGiven[1].name # VIRTUAL_BASE_MODULE THEN NoFile
  ELSE IF jsModulesGiven[1].dontCompileInputFiles = <<>>
  THEN getModuleCompiledJsFile(jsModulesGiven[1].name)
  ELSE VirtualBaseCompleteFile

isRootModuleWithVirtualBase(jsModule) ==
  /\ Len(jsModule.alwaysLoadedAfterModules) = 1
  /\ jsModule.alwaysLoadedAfterModules[1] = VIRTUAL_BASE_MODULE

\* The jsModules.forEach of outputFinalJsAsync: the tasks pushed.
RECURSIVE pushTasks(_, _)
pushTasks(jsModulesGiven, virtualBaseModuleFile) ==
  IF jsModulesGiven = <<>> THEN <<>>
  ELSE LET jsModule == Head(jsModulesGiven)
           rest == pushTasks(Tail(jsModulesGiven), virtualBaseModuleFile)
           inputFilesOfTask ==
             (IF isRootModuleWithVirtualBase(jsModule)
              THEN <<virtualBaseModuleFile>> ELSE <<>>)
               \o jsModule.dontCompileInputFiles
               \o (IF Len(jsModule.compiledInputFiles) > 0
                   THEN <<getModuleCompiledJsFile(jsModule.name)>> ELSE <<>>)
           outputFilePath ==
             IF jsModule.name = VIRTUAL_BASE_MODULE THEN virtualBaseModuleFile
             ELSE BuildFile(jsModule.name)
       IN  IF jsModule.name = VIRTUAL_BASE_MODULE
              /\ Len(jsModule.dontCompileInputFiles) = 0
           THEN rest
           ELSE <<newTask(inputFilesOfTask, outputFilePath)>> \o rest

\* The records of the modules written out: module moduleName with or without
\* an uncompiled file of its own and with or without compiled files.
OutputRecords(moduleName, after) ==
  {[name |-> moduleName,
    dontCompileInputFiles |-> unc,
    compiledInputFiles |-> comp,
    alwaysLoadedAfterModules |-> after] :
     unc \in {<<>>, <<SourceFile(moduleName + 1)>>},
     comp \in {<<>>, <<"compiled.js">>}}

\* Projects with the virtual base module first (it has compiled files, as in
\* the test 'correctly builds a virtual base module with compiled &
\* uncompiled JS') and n root modules after it, and projects of a chain of n
\* modules without it.
OutputProjects ==
  UNION {{<<vb>> \o roots :
            vb \in {r \in OutputRecords(VIRTUAL_BASE_MODULE, <<>>) :
                      r.compiledInputFiles # <<>>},
            roots \in {rs \in [1..n -> UNION {OutputRecords(m, <<VIRTUAL_BASE_MODULE>>) :
                                                m \in 1..n}] :
                         \A m \in 1..n : rs[m].name = m}}
           \cup {rs \in [1..n -> UNION {OutputRecords(m, IF m = 1 THEN <<>> ELSE <<m - 1>>) :
                                          m \in 1..n}] :
                   \A m \in 1..n : rs[m].name = m} :
         n \in 1..MaxRoots}

\* The files on disk when outputFinalJsAsync is called: the uncompiled files
\* and the compiler's output for every module with compiled files.
DiskBefore(jsModulesGiven) ==
  LET paths ==
        UNION {Range(jsModulesGiven[m].dontCompileInputFiles)
                 \cup (IF Len(jsModulesGiven[m].compiledInputFiles) > 0
                       THEN {getModuleCompiledJsFile(jsModulesGiven[m].name)} ELSE {}) :
               m \in DOMAIN jsModulesGiven}
  IN  [path \in paths |-> ContentOf(path)]

InitOutput ==
  /\ NoCall
  /\ NoSort
  /\ NoGlob
  /\ outputModules \in OutputProjects
  /\ disk = DiskBefore(outputModules)
  /\ tasks = <<>>

\* outputFinalJsAsync(projectOptions, outDirs, jsModules): every task is
\* started before any of them has made a step.
OutputFinalJs ==
  /\ outputModules # <<>>
  /\ tasks = <<>>
  /\ tasks' = pushTasks(outputModules, getVirtualBaseModuleFile(outputModules))
  /\ UNCHANGED <<nonOutputVars, outputModules, disk>>

NextOutput ==
  \/ OutputFinalJs
  \/ \E t \in DOMAIN tasks : OpenStream(t)
  \/ \E t \in DOMAIN tasks : ReadFile(t)
  \/ \E t \in DOMAIN tasks : ReadFileFails(t)
  \/ \E t \in DOMAIN tasks : WriteContent(t)
  \/ \E t \in DOMAIN tasks : WriteContentFails(t)
  \/ \E t \in DOMAIN tasks : EndStream(t)

SpecOutput == InitOutput /\ [][NextOutput]_vars

-----------------------------------------------------------------------------
(* What the properties speak of *)

Done == pc = "done"

\* The order in which a record's files are loaded.
LoadSeq(rec) == rec.dontCompileInputFiles \o rec.compiledInputFiles

\* All the paths of the output, in output order.
RECURSIVE Emitted(_)
Emitted(records) ==
  IF records = <<>> THEN <<>> ELSE LoadSeq(Head(records)) \o Emitted(Tail(records))

Occurrences(s, x) == Cardinality({k \in DOMAIN s : s[k] = x})

\* The paths of the project, and the declared modules that list a path.
InputPaths == Range(scanOrder(inputFiles))

ListedBy(p) == {m \in DOMAIN inputFiles : p \in Range(scanOrder(<<inputFiles[m]>>))}

\* The name of the record that holds path p.
RecordOf(p) ==
  result[CHOOSE k \in DOMAIN result : p \in Range(LoadSeq(result[k]))].name

\* The modules a declared module reaches through alwaysLoadedAfterModules,
\* itself included.
RECURSIVE ReachFrom(_)
ReachFrom(S) ==
  LET more == S \cup UNION {jsModules[m] : m \in S}
  IN  IF more = S THEN S ELSE ReachFrom(more)

AncestorsOrSelf(m) == ReachFrom({m})

\* The paths seen before path p where module m lists it: the earlier paths of
\* the same list, and the files of the classes loaded before p's class that m
\* or a module m is loaded after lists.
SeenBefore(m, p) ==
  LET unc(a) == Range(inputFiles[a].dontCompileInputFiles)
      nn(a) == Range(inputFiles[a].nonClosureNamespacedInputFiles)
      before(list) == {list[j] : j \in 1..(IndexOf(list, p) - 1)}
      anc == AncestorsOrSelf(m)
      ms == inputFiles[m]
  IN  IF p \in Range(ms.dontCompileInputFiles)
      THEN UNION {unc(a) : a \in anc \ {m}} \cup before(ms.dontCompileInputFiles)
      ELSE IF p \in Range(ms.nonClosureNamespacedInputFiles)
      THEN UNION {unc(a) : a \in anc} \cup UNION {nn(a) : a \in anc \ {m}}
             \cup before(ms.nonClosureNamespacedInputFiles)
      ELSE UNION {unc(a) \cup nn(a) : a \in anc} \cup before(ms.closureDeps)

\* The inferred predecessors of p: the paths seen before p in every occurrence.
InferredPreds(p) == {q \in InputPaths : \A m \in ListedBy(p) : q \in SeenBefore(m, p)}

-----------------------------------------------------------------------------
(* Properties of the output *)

\* C1: after a successful calcInputFiles every input path occurs exactly once
\* in the whole output: in one record, in one of its two lists, at one position.
C1_EveryPathOnce ==
  Done => \A p \in InputPaths : Occurrences(Emitted(result), p) = 1

\* A successful run on a project in which two modules list the same path.
C1_Witness ==
  Done /\ \E p \in InputPaths : Cardinality(ListedBy(p)) >= 2

\* C2: after a successful calcInputFiles the paths of the output are exactly
\* the paths of the project, and every declared module has one record, the
\* modules left without files too.
C2_Complete ==
  Done =>
    /\ Range(Emitted(result)) = InputPaths
    /\ \A m \in DOMAIN jsModules :
         Cardinality({k \in DOMAIN result : result[k].name = m}) = 1

\* A successful run that leaves a declared module without files while the
\* project has dontCompile and compiled files.
C2_Witness ==
  /\ Done
  /\ \E k \in DOMAIN result : LoadSeq(result[k]) = <<>>
  /\ \E k \in DOMAIN result : result[k].dontCompileInputFiles # <<>>
  /\ \E k \in DOMAIN result : result[k].compiledInputFiles # <<>>

\* C3: after a successful calcInputFiles the module of every file f is in
\* neededIn(f) and is an ancestor-or-self of every module of neededIn(f);
\* every module that lists f reaches f's module.
C3_Reachable ==
  Done =>
    \A f \in DOMAIN files :
      LET m == RecordOf(files[f].path)
      IN  /\ m \in files[f].neededInModules
          /\ \A n \in files[f].neededInModules : m \in AncestorsOrSelf(n)
          /\ \A n \in ListedBy(files[f].path) : m \in AncestorsOrSelf(n)

\* A successful run in which a file is emitted in a module that does not list it.
C3_Witness ==
  Done /\ \E p \in InputPaths : RecordOf(p) \notin ListedBy(p)

\* C4: of two files emitted in the same module, an inferred predecessor comes
\* before the file it precedes in the module's load sequence
\* (dontCompileInputFiles, then compiledInputFiles).
C4_OrderSound ==
  Done =>
    \A k \in DOMAIN result :
      LET s == LoadSeq(result[k])
      IN  \A k1, k2 \in DOMAIN s : s[k1] \in InferredPreds(s[k2]) => k1 < k2

\* A successful run in which a file listed by two modules is emitted in the
\* same module as one of its inferred predecessors.
C4_Witness ==
  /\ Done
  /\ \E k \in DOMAIN result :
       LET s == LoadSeq(result[k])
       IN  \E k1, k2 \in DOMAIN s :
             /\ s[k1] \in InferredPreds(s[k2])
             /\ Cardinality(ListedBy(s[k2])) >= 2

-----------------------------------------------------------------------------
(* Properties of the placement *)

Placed == lastPlaced # NoPlacement

\* The common ancestors of the modules that needed the latest placed file
\* when it was placed, and the lowest of them.
CommonAncestors ==
  LET neededIn == lastPlaced.before[lastPlaced.file].neededInModules
  IN  {c \in DOMAIN jsModules : \A n \in neededIn : c \in AncestorsOrSelf(n)}

Depth(m) == Cardinality(AncestorsOrSelf(m))

LowestCommonAncestors ==
  {c \in CommonAncestors : \A d \in CommonAncestors : Depth(d) <= Depth(c)}

\* movesRequired(m) for the latest placed file, on the neededIn sets as they
\* were when it was placed.
MovesRequired(m) ==
  LET fs == lastPlaced.before
  IN  Cardinality({f \in DOMAIN fs :
                     /\ fs[f].path \in InferredPreds(fs[lastPlaced.file].path)
                     /\ m \notin fs[f].neededInModules})

\* C5: the module chosen for a file has the largest transitive dependency set
\* among the common ancestors of the modules that need the file, so no proper
\* descendant of it is a common ancestor; in module graphs of any depth.
C5_LowestChosen ==
  Placed =>
    /\ lastPlaced.module \in LowestCommonAncestors
    /\ \A c \in CommonAncestors :
         lastPlaced.module \in AncestorsOrSelf(c) => c = lastPlaced.module

\* C6: when a file has several lowest common ancestors, no lowest common
\* ancestor has a smaller movesRequired than the module chosen.
C6_FewestMoves ==
  (Placed /\ Cardinality(LowestCommonAncestors) >= 2) =>
    \A m \in LowestCommonAncestors :
      MovesRequired(lastPlaced.module) <= MovesRequired(m)

\* The declared root modules, and the project's validity apart from the
\* number of its roots.
DeclaredRoots == {m \in DOMAIN jsModules : jsModules[m] = {}}

DepsResolve == \A m \in DOMAIN jsModules : jsModules[m] \subseteq DOMAIN jsModules

OneClassPerPath ==
  \A m1, m2 \in DOMAIN inputFiles :
    /\ Range(inputFiles[m1].dontCompileInputFiles)
         \cap (Range(inputFiles[m2].nonClosureNamespacedInputFiles)
                 \cup Range(inputFiles[m2].closureDeps)) = {}
    /\ Range(inputFiles[m1].nonClosureNamespacedInputFiles)
         \cap Range(inputFiles[m2].closureDeps) = {}

\* The call has ended on a project with two or more declared roots, none of
\* its modules reaching two of them.
EndedOnSeveralRoots ==
  /\ pc \in {"done", "failed"}
  /\ DepsResolve
  /\ Cardinality(DeclaredRoots) >= 2
  /\ \A m \in DOMAIN jsModules : Cardinality(AncestorsOrSelf(m) \cap DeclaredRoots) = 1
  /\ DOMAIN inputFiles = DOMAIN jsModules
  /\ OneClassPerPath

RootOf(m) == CHOOSE r \in DeclaredRoots : r \in AncestorsOrSelf(m)

\* C7: on a project with two or more declared roots, no module reaching two
\* of them, the call succeeds, the first record is virtual_base_module, and
\* every file needed under two declared roots is emitted in that record.
C7_VirtualBase ==
  EndedOnSeveralRoots =>
    /\ pc = "done"
    /\ Len(result) >= 1
    /\ result[1].name = VIRTUAL_BASE_MODULE
    /\ \A p \in InputPaths :
         (\E m1, m2 \in ListedBy(p) : RootOf(m1) # RootOf(m2))
           => p \in Range(LoadSeq(result[1]))

\* The record of a declared module.
RecordNamed(m) == result[CHOOSE k \in DOMAIN result : result[k].name = m]

\* C8: if no path is listed by more than one module, every record holds the
\* module's declared dontCompileInputFiles, and as compiledInputFiles its
\* nonClosureNamespacedInputFiles followed by its Closure dependencies.
C8_UniqueFilesStay ==
  (Done /\ \A p \in InputPaths : Cardinality(ListedBy(p)) = 1) =>
    \A m \in DOMAIN jsModules :
      /\ RecordNamed(m).dontCompileInputFiles = inputFiles[m].dontCompileInputFiles
      /\ RecordNamed(m).compiledInputFiles =
           inputFiles[m].nonClosureNamespacedInputFiles \o inputFiles[m].closureDeps

-----------------------------------------------------------------------------
(* Properties of the load order *)

\* The final load sequence of module m: the records of the modules m reaches,
\* m itself included, in output order.
RECURSIVE LoadSeqOver(_, _)
LoadSeqOver(records, S) ==
  IF records = <<>> THEN <<>>
  ELSE (IF Head(records).name \in S THEN LoadSeq(Head(records)) ELSE <<>>)
         \o LoadSeqOver(Tail(records), S)

FinalLoadSeq(m) == LoadSeqOver(result, AncestorsOrSelf(m))

\* The files that m or a module m is loaded after declares as
\* dontCompileInputFiles or nonClosureNamespacedInputFiles.
DeclaredNonClosure(m) ==
  UNION {Range(inputFiles[a].dontCompileInputFiles)
           \cup Range(inputFiles[a].nonClosureNamespacedInputFiles) :
         a \in AncestorsOrSelf(m)}

LoadedBefore(s, u, c) ==
  \E k1, k2 \in DOMAIN s : s[k1] = u /\ s[k2] = c /\ k1 < k2

-----------------------------------------------------------------------------
(* Properties of the topological sort *)

\* The module graph getSortedModuleIds sorts, over the module IDs.
ModuleEdges(m) == modules[m].moduleDeps

RECURSIVE ModulesReachedFrom(_)
ModulesReachedFrom(S) ==
  LET more == S \cup UNION {ModuleEdges(m) : m \in S}
  IN  IF more = S THEN S ELSE ModulesReachedFrom(more)

\* The nodes that lie on a directed cycle.
OnCycle == {m \in DOMAIN modules : m \in ModulesReachedFrom(ModuleEdges(m))}

\* getSortedModuleIds has run.
ModulesSorted == pc = "transDeps" \/ error.kind = "ModuleCycle"

-----------------------------------------------------------------------------
(* Properties of the errors *)

\* fillInTransitiveModuleDeps has run: it threw, or initFiles is next.
RootsChecked == pc = "initFiles" \/ error.kind = "MultipleRoots"

\* The declared roots a declared module reaches.
RootsReached(m) == AncestorsOrSelf(m) \cap DeclaredRoots

\* C11: on an acyclic module graph whose dependency names resolve, the call
\* fails with MultipleRoots exactly when some module reaches two or more
\* declared roots; the error names such a module and the declared roots it
\* reaches, the declared roots being counted also when the virtual base module
\* was injected; when the check passes every module reaches at most one
\* declared root.
C11_MultipleRoots ==
  RootsChecked =>
    /\ (error.kind = "MultipleRoots")
         <=> (\E m \in DOMAIN jsModules : Cardinality(RootsReached(m)) >= 2)
    /\ error.kind = "MultipleRoots" =>
         /\ Len(error.names) >= 3
         /\ error.names[1] \in DOMAIN jsModules
         /\ Range(Tail(error.names)) = RootsReached(error.names[1])
         /\ Len(Tail(error.names)) = Cardinality(RootsReached(error.names[1]))
    /\ error.kind # "MultipleRoots" =>
         \A m \in DOMAIN jsModules : Cardinality(RootsReached(m)) <= 1

\* A MultipleRoots error on a graph with the virtual base module injected:
\* the module named is loaded after one declared root and after a module that
\* is no root, through which alone it reaches the other declared root.
C11_Witness ==
  /\ error.kind = "MultipleRoots"
  /\ VIRTUAL_BASE_MODULE_ID \in DOMAIN modules
  /\ Cardinality(jsModules[error.names[1]] \cap DeclaredRoots) = 1
  /\ Cardinality(RootsReached(error.names[1])) = 2

\* initFiles has run: it threw, or getSortedFileIds is next.
FilesRecorded ==
  pc = "sortFiles" \/ error.kind \in {"MixedCompileClass", "TypeError"}

\* The compile classes under which the project lists path p.
ClassesOf(p) ==
  {UNCOMPILED : m \in {a \in DOMAIN inputFiles :
                         p \in Range(inputFiles[a].dontCompileInputFiles)}}
    \cup {NON_NAMESPACED : m \in {a \in DOMAIN inputFiles :
                         p \in Range(inputFiles[a].nonClosureNamespacedInputFiles)}}
    \cup {CLOSURE : m \in {a \in DOMAIN inputFiles :
                         p \in Range(inputFiles[a].closureDeps)}}

\* C12: on a project whose module graph is valid (the dependencies resolve,
\* no cycle, no module reaching two declared roots) the call fails with
\* MixedCompileClass, naming the path, exactly when some path is listed under
\* two compile classes, in one module or in two; otherwise every file
\* recorded has the one class of its path.
C12_MixedClass ==
  FilesRecorded =>
    /\ (error.kind = "MixedCompileClass")
         <=> (\E p \in InputPaths : Cardinality(ClassesOf(p)) >= 2)
    /\ error.kind = "MixedCompileClass" =>
         /\ Len(error.paths) = 1
         /\ error.paths[1] \in InputPaths
         /\ Cardinality(ClassesOf(error.paths[1])) >= 2
    /\ error.kind # "MixedCompileClass" =>
         \A f \in DOMAIN files : ClassesOf(files[f].path) = {files[f].compileMode}

\* C12 on the projects with one declared root.
C12_MixedClassOneRoot == Cardinality(DeclaredRoots) = 1 => C12_MixedClass

\* initModules has run in the call under way.
ModulesInitialized == pc \notin {"start", "called"}

\* The declared modules that list a name no module declares.
ListingUnknown == {m \in DOMAIN jsModules : ~(jsModules[m] \subseteq DOMAIN jsModules)}

\* C13: if a module lists in alwaysLoadedAfterModules a name that is no
\* declared module, the call fails with UnknownDepModule, which names the
\* missing name and the module that lists it, whatever cycles, modules with
\* several roots or paths of two classes the project has as well; no other
\* project fails so.
C13_UnknownDep ==
  ModulesInitialized =>
    /\ (error.kind = "UnknownDepModule") <=> (ListingUnknown # {})
    /\ error.kind = "UnknownDepModule" =>
         /\ Len(error.names) = 2
         /\ error.names[2] \in ListingUnknown
         /\ error.names[1] \in jsModules[error.names[2]] \ DOMAIN jsModules

\* An UnknownDepModule error on a project in which the module named also
\* lists itself and two declared roots, and a path has two classes.
C13_Witness ==
  /\ error.kind = "UnknownDepModule"
  /\ error.names[2] \in jsModules[error.names[2]]
  /\ Cardinality(jsModules[error.names[2]] \cap DeclaredRoots) >= 2
  /\ \E p \in InputPaths : Cardinality(ClassesOf(p)) >= 2

\* The call has ended.
Ended == pc \in {"done", "failed"}

\* The module graph has no cycle (of a graph whose names resolve).
Acyclic == \A m \in DOMAIN jsModules : m \notin ReachFrom(jsModules[m])

\* C14: a call ends either with the complete list of module records or with
\* exactly one of the errors UnknownDepModule, ModuleCycle, MultipleRoots,
\* MixedCompileClass, InferredFileCycle and no records; the stages run in the
\* order graph build, topological sort, root check, order inference,
\* placement, emission, so an error of a stage is met only on a project that
\* passes the stages before it.
C14_TypedOutcome ==
  Ended =>
    /\ pc = "done" =>
         /\ error = NoError
         /\ {result[k].name : k \in DOMAIN result} = {modules[m].name : m \in DOMAIN modules}
         /\ Len(result) = Cardinality(DOMAIN modules)
         /\ Range(Emitted(result)) = InputPaths
    /\ pc = "failed" =>
         /\ error.kind \in {"UnknownDepModule", "ModuleCycle", "MultipleRoots",
                            "MixedCompileClass", "InferredFileCycle"}
         /\ result = <<>>
         /\ error.kind # "UnknownDepModule" => DepsResolve
         /\ error.kind \in {"MultipleRoots", "MixedCompileClass", "InferredFileCycle"}
              => Acyclic
         /\ error.kind \in {"MixedCompileClass", "InferredFileCycle"}
              => \A m \in DOMAIN jsModules : Cardinality(RootsReached(m)) <= 1
         /\ error.kind = "InferredFileCycle" => OneClassPerPath

\* The projects that pass the root check with the virtual base module
\* injected: a valid module graph that has not exactly one declared root.
PassesWithVirtualBase ==
  /\ DepsResolve
  /\ Acyclic
  /\ \A m \in DOMAIN jsModules : Cardinality(RootsReached(m)) <= 1
  /\ Cardinality(DeclaredRoots) # 1

\* C14 on all other projects.
C14_TypedOutcomeOtherwise == ~PassesWithVirtualBase => C14_TypedOutcome

-----------------------------------------------------------------------------
(* Properties of the list of records *)

\* A project no stage should reject: the names resolve, no cycle, no module
\* reaching two declared roots, one class per path.
ValidProject ==
  /\ DOMAIN jsModules # {}
  /\ DepsResolve
  /\ Acyclic
  /\ \A m \in DOMAIN jsModules : Cardinality(RootsReached(m)) <= 1
  /\ DOMAIN inputFiles = DOMAIN jsModules
  /\ OneClassPerPath

\* The position of the record of module name in the output, 0 if it has none.
PositionOf(name) ==
  IF \E k \in DOMAIN result : result[k].name = name
  THEN CHOOSE k \in DOMAIN result : result[k].name = name
  ELSE 0

\* The records are in module dependency order, and the first is that of the
\* one declared root, or the virtual base module's if there are several.
InDependencyOrder ==
  /\ \A m \in DOMAIN jsModules : PositionOf(m) > 0
  /\ \A m \in DOMAIN jsModules :
       \A d \in AncestorsOrSelf(m) \ {m} : PositionOf(d) < PositionOf(m)
  /\ IF Cardinality(DeclaredRoots) = 1
     THEN result[1].name \in DeclaredRoots
     ELSE /\ result[1].name = VIRTUAL_BASE_MODULE
          /\ \A m \in DOMAIN jsModules : PositionOf(m) > 1

\* C15: the call on a valid project returns the records in module dependency
\* order: every module's record comes after the records of all modules it is
\* loaded after, directly or not, and the first record is that of the one
\* declared root, or of the virtual base module when it was injected.
C15_DependencyOrder ==
  (Ended /\ ValidProject) => (Done /\ InDependencyOrder)

\* C15 on the lists the call does return.
C15_ReturnedInOrder == Done => InDependencyOrder

\* C16: a project with no modules is a valid input: the virtual base module
\* is not injected and the call returns the empty list of records.
C16_EmptyProject ==
  (Ended /\ DOMAIN jsModules = {}) =>
    /\ Done
    /\ result = <<>>
    /\ VIRTUAL_BASE_MODULE_ID \notin DOMAIN modules

\* All the paths of the dontCompileInputFiles lists of the output, and all
\* those of its compiledInputFiles lists.
EmittedUncompiled == UNION {Range(result[k].dontCompileInputFiles) : k \in DOMAIN result}

EmittedCompiled == UNION {Range(result[k].compiledInputFiles) : k \in DOMAIN result}

\* C17: in the output every path the project lists in a dontCompileInputFiles
\* list is in a dontCompileInputFiles list, every path it lists in a
\* nonClosureNamespacedInputFiles list or among the Closure dependencies is in
\* a compiledInputFiles list, and no path is in lists of both kinds.
C17_ClassBuckets ==
  Done =>
    /\ \A m \in DOMAIN inputFiles :
         /\ Range(inputFiles[m].dontCompileInputFiles) \subseteq EmittedUncompiled
         /\ Range(inputFiles[m].nonClosureNamespacedInputFiles) \subseteq EmittedCompiled
         /\ Range(inputFiles[m].closureDeps) \subseteq EmittedCompiled
    /\ EmittedUncompiled \cap EmittedCompiled = {}

\* An output in which a dontCompile file has left the modules that list it,
\* and which holds a compiled file as well.
C17_Witness ==
  /\ Done
  /\ \E p \in InputPaths : ClassesOf(p) = {UNCOMPILED} /\ RecordOf(p) \notin ListedBy(p)
  /\ \E p \in InputPaths : UNCOMPILED \notin ClassesOf(p)

\* The names a module depends on after the virtual base module was injected.
DepsAfterInjection(name) ==
  IF name = VIRTUAL_BASE_MODULE /\ VIRTUAL_BASE_MODULE \notin DOMAIN jsModules THEN {}
  ELSE IF name \in DeclaredRoots /\ Cardinality(DeclaredRoots) # 1
  THEN {VIRTUAL_BASE_MODULE}
  ELSE jsModules[name]

\* C18: every record of the output carries the dependency list of its module
\* as it is after the injection of the virtual base module: a declared
\* module's direct dependencies, virtual_base_module for every declared root
\* when it was injected, none for the virtual base module.
C18_RecordsCarryDeps ==
  Done =>
    \A k \in DOMAIN result :
      /\ "alwaysLoadedAfterModules" \in DOMAIN result[k]
      /\ Range(result[k].alwaysLoadedAfterModules) = DepsAfterInjection(result[k].name)

-----------------------------------------------------------------------------
(* Properties of several calls *)

\* What the calls have given so far, the call under way included once it
\* has ended.
Outcomes == IF Ended THEN Append(kept, Outcome) ELSE kept

\* C19: two calls on the same project (the same modules in the same order
\* with the same file lists) give the same outcome: the same records in the
\* same order with the same files in the same order, or the same error,
\* whatever calls were made before or between them.
C19_SameInputSameOutput ==
  \A j, k \in DOMAIN Outcomes :
    Outcomes[j].project = Outcomes[k].project => Outcomes[j] = Outcomes[k]

\* Three calls, the first and the third on one project, with both files
\* emitted and one of them moved to another module, the second on a project
\* with another module graph and an output that holds files as well.
C19_Witness ==
  /\ Done
  /\ Len(kept) = 2
  /\ kept[1].project = Outcome.project
  /\ kept[2].project.jsModules # kept[1].project.jsModules
  /\ Emitted(kept[2].returned) # <<>>
  /\ Cardinality(InputPaths) = 2
  /\ \E p \in InputPaths : RecordOf(p) \notin ListedBy(p)

-----------------------------------------------------------------------------
(* Properties of topSortNodes *)

\* topSortNodes has been called on tsGraph.
Sorted == tsResult # NotSorted

RECURSIVE NodesReachedFrom(_)
NodesReachedFrom(S) ==
  LET more == S \cup UNION {tsGraph.edges[n] : n \in S}
  IN  IF more = S THEN S ELSE NodesReachedFrom(more)

\* tsGraph has no directed cycle.
AcyclicGraph ==
  \A n \in Range(tsGraph.keys) : n \notin NodesReachedFrom(tsGraph.edges[n])

\* The sequence returned holds every node once, each after the nodes of its
\* outgoing edges.
SortedLeavesFirst ==
  /\ tsResult.ok
  /\ Range(tsResult.sortedNodes) = Range(tsGraph.keys)
  /\ Len(tsResult.sortedNodes) = Len(tsGraph.keys)
  /\ \A k1, k2 \in DOMAIN tsResult.sortedNodes :
       tsResult.sortedNodes[k2] \in tsGraph.edges[tsResult.sortedNodes[k1]] => k2 < k1

\* C20: on every acyclic graph whose edges lead to nodes of the graph,
\* topSortNodes returns a sequence that holds every node exactly once and in
\* which every node comes after all nodes of its outgoing edges.
C20_TopSort == (Sorted /\ AcyclicGraph) => SortedLeavesFirst

\* C20 on the graphs none of whose nodes has the empty name.
C20_TopSortNamed ==
  (Sorted /\ AcyclicGraph /\ EmptyName \notin Range(tsGraph.keys)) => SortedLeavesFirst

-----------------------------------------------------------------------------
(* Properties of the inferred order *)

\* The name of the module in which file f is emitted, and the file's path.
ModuleOf(f) == RecordOf(files[f].path)

\* C23: after a successful calcInputFiles the module in which an inferred
\* predecessor p of a file f is emitted is an ancestor-or-self of the module in
\* which f is emitted, so p is loaded no later than f in every module whose load
\* includes f, also when f was moved to a module that never listed p.
C23_PredsLoadedFirst ==
  Done =>
    \A f \in DOMAIN files : \A p \in files[f].inferredDeps :
      ModuleOf(p) \in AncestorsOrSelf(ModuleOf(f))

\* A successful run in which a file with an inferred predecessor is emitted in
\* a module that lists neither the file nor the predecessor.
C23_Witness ==
  /\ Done
  /\ \E f \in DOMAIN files : \E p \in files[f].inferredDeps :
       /\ ModuleOf(f) \notin ListedBy(files[f].path)
       /\ ModuleOf(f) \notin ListedBy(files[p].path)

\* initFiles has returned: every file has its inferredDeps.
OrderInferred == pc = "sortFiles"

\* The paths of a file's inferredDeps.
InferredDepPaths(f) == {files[p].path : p \in files[f].inferredDeps}

\* C24: after order inference the predecessor set of every file f is the
\* intersection, over the modules M that list f, of depsBefore(f, M): for an
\* Uncompiled f the Uncompiled files of M's ancestors and those listed earlier
\* in M; for a NonNamespaced f the Uncompiled and NonNamespaced files of M's
\* ancestors, the Uncompiled files of M and the NonNamespaced files listed
\* earlier in M; for a Namespaced f the Uncompiled and NonNamespaced files of M
\* and its ancestors and the Namespaced files listed earlier in M's own list.
C24_PredsAreIntersection ==
  OrderInferred =>
    \A f \in DOMAIN files : InferredDepPaths(f) = InferredPreds(files[f].path)

\* Order inference has met a file in two modules that see different files
\* before it, and has left it an inferred predecessor.
C24_Witness ==
  /\ OrderInferred
  /\ \E f \in DOMAIN files :
       /\ files[f].inferredDeps # {}
       /\ \E m, n \in ListedBy(files[f].path) :
            SeenBefore(m, files[f].path) # SeenBefore(n, files[f].path)

\* A round of calcInputs' loop: it places the file sortedFileIds[i].
PlacementStep == pc = "place" /\ i >= 1 /\ i' = i - 1

\* The files placed by the earlier rounds.
PlacedEarlier == {sortedFileIds[k] : k \in (i + 1)..Len(sortedFileIds)}

\* C25: every file is placed before each of its inferred predecessors, and a
\* placement step leaves the neededInModules of the files placed by earlier
\* steps as they are: neededIn(f) grows only before or during the step that
\* places f.
C25_PlacedBeforePreds ==
  [][PlacementStep =>
       /\ files[sortedFileIds[i]].inferredDeps \cap PlacedEarlier = {}
       /\ \A g \in PlacedEarlier :
            files'[g].neededInModules = files[g].neededInModules]_vars

\* A placement step has added its module to the neededInModules of a file that
\* is placed later, after an earlier step placed another file.
C25_Witness ==
  /\ pc = "place"
  /\ Placed
  /\ i + 2 <= Len(sortedFileIds)
  /\ \E p \in lastPlaced.before[lastPlaced.file].inferredDeps :
       files[p].neededInModules # lastPlaced.before[p].neededInModules

\* The step has put path at the front of one of the two lists of record rec.
EmittedInto(rec, path) ==
  \/ /\ rec' = [rec EXCEPT !.dontCompileInputFiles = <<path>> \o @]
  \/ /\ rec' = [rec EXCEPT !.compiledInputFiles = <<path>> \o @]

\* C26: the step that places file f into module m changes m's emission list
\* and, when m was not in neededIn(f), adds m to neededIn(f) and to neededIn(p)
\* of every inferred predecessor p of f; when m was in neededIn(f) no neededIn
\* set changes.  No neededIn set loses a member; predecessor sets, compile
\* classes, module edges and the other emission lists stay as they are.
C26_PlacementFrame ==
  [][PlacementStep =>
       LET f == sortedFileIds[i]
       IN  /\ \E m \in DOMAIN inputsByModule :
                /\ EmittedInto(inputsByModule[m], files[f].path)
                /\ \A n \in DOMAIN inputsByModule \ {m} :
                     inputsByModule'[n] = inputsByModule[n]
                /\ \A g \in DOMAIN files :
                     files'[g].neededInModules =
                       IF m \notin files[f].neededInModules
                            /\ (g = f \/ g \in files[f].inferredDeps)
                       THEN files[g].neededInModules \cup {m}
                       ELSE files[g].neededInModules
           /\ DOMAIN inputsByModule' = DOMAIN inputsByModule
           /\ DOMAIN files' = DOMAIN files
           /\ \A g \in DOMAIN files :
                /\ files[g].neededInModules \subseteq files'[g].neededInModules
                /\ files'[g].inferredDeps = files[g].inferredDeps
                /\ files'[g].compileMode = files[g].compileMode
                /\ files'[g].path = files[g].path
           /\ UNCHANGED <<modules, moduleKeys, sortedModuleIds, fileKeys,
                          sortedFileIds, jsModules, inputFiles, error, result>>]_vars

\* A placement step has put a file with inferred predecessors into a module
\* that did not need it, and another into a module that needed it already.
C26_Witness ==
  /\ Placed
  /\ pc = "place"
  /\ lastPlaced.module \notin lastPlaced.before[lastPlaced.file].neededInModules
  /\ lastPlaced.before[lastPlaced.file].inferredDeps # {}
  /\ \E g \in PlacedEarlier \ {lastPlaced.file} :
       /\ files[g].inferredDeps # {}
       /\ Cardinality(files[g].neededInModules) = 1

-----------------------------------------------------------------------------
(* Properties of the module graph *)

\* The module graph has passed every check of the constructor.
GraphValidated == pc = "initFiles"

\* The virtual base module is injected unless exactly one module is a
\* declared root.
Injected == Cardinality(DeclaredRoots) # 1

\* The direct dependencies of a module after the injection, by ID.
DirectDeps(m) ==
  IF m = VIRTUAL_BASE_MODULE_ID THEN {}
  ELSE IF Injected /\ m \in DeclaredRoots THEN {VIRTUAL_BASE_MODULE_ID}
  ELSE jsModules[m]

\* The modules reachable from the modules of S over the direct dependencies,
\* those of S included.
RECURSIVE ClosureOf(_)
ClosureOf(S) ==
  LET more == S \cup UNION {DirectDeps(m) : m \in S}
  IN  IF more = S THEN S ELSE ClosureOf(more)

\* C27: for every module m of a validated graph the computed transitive
\* dependency set is m itself plus every module reachable from m over the
\* direct dependencies, the virtual root included when injected, and nothing
\* else.
C27_TransitiveDeps ==
  GraphValidated =>
    /\ DOMAIN modules =
         DOMAIN jsModules \cup (IF Injected THEN {VIRTUAL_BASE_MODULE_ID} ELSE {})
    /\ \A m \in DOMAIN modules : modules[m].transitiveModuleDeps = ClosureOf({m})

\* A validated graph in which a module reaches a module that it does not
\* list, and a validated graph with the virtual root.
C27_Witness ==
  /\ GraphValidated
  /\ \E m \in DOMAIN modules :
       /\ VIRTUAL_BASE_MODULE_ID \in modules[m].transitiveModuleDeps
       /\ Cardinality(modules[m].transitiveModuleDeps) >= 4
       /\ ~(modules[m].transitiveModuleDeps \subseteq modules[m].moduleDeps \cup {m})

-----------------------------------------------------------------------------
(* Properties of the inferred predecessor relation *)

\* The files reached from the files of S over inferredDeps, those of S
\* included.
RECURSIVE FilesReachedFrom(_)
FilesReachedFrom(S) ==
  LET more == S \cup UNION {files[f].inferredDeps : f \in S}
  IN  IF more = S THEN S ELSE FilesReachedFrom(more)

\* C28: whatever orders the modules declare, after order inference no file is
\* its own inferred predecessor, directly or through other files, and the
\* topological sort of the files never fails with InferredFileCycle.
C28_NoFileCycle ==
  /\ error.kind # "InferredFileCycle"
  /\ OrderInferred =>
       \A f \in DOMAIN files : f \notin FilesReachedFrom(files[f].inferredDeps)

\* The files have been sorted in a project in which two modules list two files
\* in opposite orders.
C28_Witness ==
  /\ pc = "calcInputs"
  /\ \E m, n \in DOMAIN inputFiles : \E p, q \in InputPaths :
       /\ p # q
       /\ {m, n} \subseteq ListedBy(p) \cap ListedBy(q)
       /\ p \in SeenBefore(m, q)
       /\ q \in SeenBefore(n, p)

\* C29: the inferred predecessor relation is transitively closed: if g is an
\* inferred predecessor of f and h one of g, then h is an inferred predecessor
\* of f, so marking the direct predecessors of a placed file reaches all of its
\* indirect predecessors.
C29_PredsTransitive ==
  OrderInferred =>
    \A f \in DOMAIN files : \A g \in files[f].inferredDeps :
      files[g].inferredDeps \subseteq files[f].inferredDeps

\* Order inference has left a chain of three files of which no module lists
\* both the first and the last.
C29_Witness ==
  /\ OrderInferred
  /\ \E f \in DOMAIN files : \E g \in files[f].inferredDeps :
       \E h \in files[g].inferredDeps :
         ListedBy(files[f].path) \cap ListedBy(files[h].path) = {}

-----------------------------------------------------------------------------
(* Properties of the glob resolver *)

\* resolveAnyGlobPatternsAsync has yielded its list.
Resolved == allFiles.state = "fulfilled"

\* The paths the list stands for, in order: every file as it is given and
\* every pattern replaced by its matches, separators normalized.
PathsGiven == mapConvertBackslashes(pushAll(filesAndPatterns, resolvedFiles))

\* C21: the list returned by resolveAnyGlobPatternsAsync holds no backslash
\* and no path twice, and it keeps the first occurrences of the paths given
\* (in either separator) in their order, each pattern's matches at the
\* position of the pattern.
C21_ResolvedList ==
  Resolved =>
    /\ \A k \in DOMAIN allFiles.value : BACKSLASH \notin Range(allFiles.value[k])
    /\ IsDupFree(allFiles.value)
    /\ allFiles.value = unique(PathsGiven)

\* C21 on the lists in which no entry and no match holds a backslash.
C21_ResolvedListOfSlashes ==
  (\A k \in DOMAIN pushAll(filesAndPatterns, resolvedFiles) :
     BACKSLASH \notin Range(pushAll(filesAndPatterns, resolvedFiles)[k]))
    => C21_ResolvedList

-----------------------------------------------------------------------------
(* Properties of the concatenation *)

\* The contents of the first n files of a list, one after the other.
RECURSIVE ContentsOf(_, _)
ContentsOf(list, n) ==
  IF n = 0 THEN <<>> ELSE ContentsOf(list, n - 1) \o ContentOf(list[n])

\* What the output stream of a task has taken so far.
StreamOf(task) ==
  IF task.outputFilePath \in DOMAIN disk THEN disk[task.outputFilePath] ELSE <<>>

\* The output holds the contents of the files before the one under way, in
\* list order; a failed task is rejected with the failure of the file under
\* way and its stream is not ended; a closed task has written every file.
WrittenInOrder(task) ==
  /\ StreamOf(task) = ContentsOf(task.inputFiles, task.k - 1)
  /\ task.phase = "failed" =>
       /\ ~task.ended
       /\ task.err.op \in {"read", "write"}
       /\ task.err.path = task.inputFiles[task.k]
  /\ task.phase \in {"end", "closed"} => task.k = Len(task.inputFiles) + 1
  /\ task.ended <=> task.phase = "closed"

\* A step of a task starts a read only when the write of the file before has
\* completed, and a failed task reads and writes nothing more.
StepsInSeries(t) ==
  /\ tasks'[t].k # tasks[t].k =>
       /\ tasks[t].phase = "write"
       /\ tasks'[t].k = tasks[t].k + 1
       /\ disk'[tasks[t].outputFilePath] =
            disk[tasks[t].outputFilePath] \o ContentOf(tasks[t].inputFiles[tasks[t].k])
  /\ (tasks'[t].phase = "read" /\ tasks[t].phase # "read") => tasks[t].phase = "write"
  /\ tasks[t].phase = "failed" =>
       /\ tasks'[t].phase = "failed"
       /\ tasks'[t].err = tasks[t].err
       /\ tasks'[t].k = tasks[t].k
       /\ ~tasks'[t].ended
       /\ tasks[t].opened => disk'[tasks[t].outputFilePath] = disk[tasks[t].outputFilePath]

\* C22: writeTextFilesAsync writes the contents of the input files to the
\* output stream in list order and starts to read a file only after the write
\* of the file before has completed; after a failed read or write no later
\* file is read or written, the promise is rejected with that error and the
\* output stream is not ended.
C22_WritesInSeries ==
  /\ [](\A t \in DOMAIN tasks : WrittenInOrder(tasks[t]))
  /\ [][\A t \in DOMAIN tasks : StepsInSeries(t)]_vars

\* The write of the third file of a list has failed after the first two files
\* were written.
C22_Witness ==
  \E t \in DOMAIN tasks :
    /\ tasks[t].phase = "failed"
    /\ tasks[t].err.op = "write"
    /\ tasks[t].k = 3
    /\ Len(StreamOf(tasks[t])) = 2
    /\ Len(tasks[t].inputFiles) = 3

-----------------------------------------------------------------------------
(* Properties of the output of the final JS files *)

\* The virtual base module has uncompiled files: a task writes
\* virtual_base_module_complete.js.
VirtualBaseHasUncompiled ==
  /\ outputModules # <<>>
  /\ outputModules[1].name = VIRTUAL_BASE_MODULE
  /\ outputModules[1].dontCompileInputFiles # <<>>

\* Task t's read of virtual_base_module_complete.js ends in this step.
ReadsVirtualBase(t) ==
  /\ tasks[t].phase = "read"
  /\ tasks[t].inputFiles[tasks[t].k] = VirtualBaseCompleteFile
  /\ tasks'[t].phase # "read"

\* The whole content of virtual_base_module_complete.js.
VirtualBaseContent ==
  ContentsOf(outputModules[1].dontCompileInputFiles, Len(outputModules[1].dontCompileInputFiles))
    \o ContentOf(getModuleCompiledJsFile(VIRTUAL_BASE_MODULE))

\* C30: when the virtual base module has uncompiled files, a root module's
\* task reads virtual_base_module_complete.js only after the task that writes
\* it has finished and closed it, and so reads the whole file, whatever the
\* interleaving of the tasks.
C30_ReadsClosedVirtualBase ==
  [][VirtualBaseHasUncompiled =>
       \A t \in DOMAIN tasks :
         ReadsVirtualBase(t) =>
           /\ \E w \in DOMAIN tasks :
                /\ tasks[w].outputFilePath = VirtualBaseCompleteFile
                /\ tasks[w].phase = "closed"
           /\ tasks'[t].phase = "write" => tasks'[t].fileContent = VirtualBaseContent]_vars


=============================================================================
